---- MODULE Spec2Model ----
(***************************************************************************)
(* A model of cpp/src/parquet/arrow/reader_internal.cc: the transfer of    *)
(* one decoded Parquet column chunk (a RecordReader) into an Arrow         *)
(* ChunkedArray of the requested field type (TransferColumnData and the    *)
(* strategies it dispatches to).                                           *)
(*                                                                         *)
(* Integers are kept as little-endian byte sequences of their C width, so  *)
(* that narrowing, sign extension and re-encoding are modelled bit for     *)
(* bit.  A buffer is a record <<id, data>>: "id" is the identity of the    *)
(* memory region (who allocated it), "data" its bytes.                     *)
(***************************************************************************)
EXTENDS Integers, Sequences, FiniteSets, TLC

VARIABLES
    pc,           \* "ready": before the call; "done": TransferColumnData returned
    reader,       \* the RecordReader handed to the call
    metadata,     \* the optional ColumnChunkMetaData handed to the call
    value_field,  \* the target field: [type, nullable]
    descr,        \* the ColumnDescriptor: [physical_type, type_length]
    status,       \* the Status returned ("none" before the call)
    out,          \* the caller's *out: [set, type, chunks]
    trace,        \* what the call did: [path, log, allocs, env, reader, kind]
    attached,     \* the ArrayData handed to a direct AttachStatistics call
    stats,        \* the Statistics handed to StatisticsAsScalars
    scalars,      \* the caller's *min and *max, and the message of the returned status
    calls,        \* two concurrent calls: each one's position, arguments, status and *out
    results,      \* the Datum each running call's switch writes and its tail reads
    binary_type   \* the function-local static of TransferHalfFloat

\* The state of two concurrent calls.
concurrent_vars == <<calls, results, binary_type>>

vars == <<pc, reader, metadata, value_field, descr, status, out, trace, attached,
          stats, scalars, calls, results, binary_type>>

-----------------------------------------------------------------------------
(* Bounds of the model.                                                    *)

\* Longest primitive column chunk of the dispatch-level specification.
MaxLen == 2
\* Most chunks a binary or dictionary reader delivers.
MaxChunks == 2
\* Longest column chunk of the value-level specifications.
MaxValues == 3
\* Longest boolean column chunk (more than 8, so that a second bitmap byte exists).
MaxBoolLen == 9

-----------------------------------------------------------------------------
(* Bytes and integers.                                                     *)

\* An indeterminate byte: memory read outside what was written.
Undef == -1

\* ::arrow::kUnknownNullCount
kUnknownNullCount == -1

RECURSIVE ToBytes(_, _)
\* The n-byte little-endian two's-complement encoding of the integer v.
ToBytes(v, n) == IF n = 0 THEN <<>> ELSE <<v % 256>> \o ToBytes(v \div 256, n - 1)

RECURSIVE Repeat(_, _)
Repeat(b, n) == IF n <= 0 THEN <<>> ELSE <<b>> \o Repeat(b, n - 1)

RECURSIVE Flatten(_)
Flatten(ss) == IF ss = <<>> THEN <<>> ELSE Head(ss) \o Flatten(Tail(ss))

Reverse(s) == [i \in 1..Len(s) |-> s[Len(s) + 1 - i]]

\* The byte that extends a signed little-endian value upwards.
SignByte(bytes) ==
    IF bytes = <<>> THEN 0
    ELSE IF bytes[Len(bytes)] = Undef THEN Undef
    ELSE IF bytes[Len(bytes)] >= 128 THEN 255 ELSE 0

\* static_cast of a signed integer of Len(bytes) bytes to an integer type of n
\* bytes: truncation keeps the low bytes (the value modulo 2^(8n)), widening
\* sign-extends.  The target's signedness does not change the bytes.
StaticCast(bytes, n) ==
    IF n <= Len(bytes) THEN SubSeq(bytes, 1, n)
    ELSE bytes \o Repeat(SignByte(bytes), n - Len(bytes))

\* Zero extension: the widening of an unsigned value.
ZeroExtend(bytes, n) == bytes \o Repeat(0, n - Len(bytes))

\* Element i (from 1) of a buffer read as elements of w bytes each
\* (reinterpret_cast<const CType*>(reader->values())[i-1]); bytes past the end
\* of what the buffer holds are indeterminate.
ElementAt(data, i, w) ==
    [k \in 1..w |-> IF (i - 1) * w + k <= Len(data) THEN data[(i - 1) * w + k] ELSE Undef]

-----------------------------------------------------------------------------
(* Arrow data types: [id, unit, value, byte_width].  "unit" is the time    *)
(* unit of a timestamp, "byte_width" the width of a fixed_size_binary; a   *)
(* dictionary type keeps its value type's id in "value" and its value      *)
(* type's unit and byte_width.                                             *)

T(id) == [id |-> id, unit |-> "NONE", value |-> "NONE", byte_width |-> 0]
Timestamp(u) == [id |-> "TIMESTAMP", unit |-> u, value |-> "NONE", byte_width |-> 0]
FixedSizeBinary(w) ==
    [id |-> "FIXED_SIZE_BINARY", unit |-> "NONE", value |-> "NONE", byte_width |-> w]
\* ::arrow::dictionary(::arrow::int32(), vt)
Dictionary(vt) ==
    [id |-> "DICTIONARY", unit |-> vt.unit, value |-> vt.id, byte_width |-> vt.byte_width]

TimeUnits == {"SECOND", "MILLI", "MICRO", "NANO"}

\* sizeof(c_type) of the Arrow types the primitive strategies are instantiated with.
CTypeWidth(id) ==
    CASE id \in {"BOOL", "UINT8", "INT8"} -> 1
      [] id \in {"UINT16", "INT16", "HALF_FLOAT"} -> 2
      [] id \in {"INT32", "UINT32", "DATE32", "TIME32", "FLOAT"} -> 4
      [] id \in {"INT64", "UINT64", "TIME64", "DURATION", "DATE64", "TIMESTAMP", "DOUBLE"} -> 8
      [] OTHER -> 0

CTypeSigned(id) ==
    id \in {"INT8", "INT16", "INT32", "INT64", "DATE32", "TIME32", "TIME64", "DURATION",
            "DATE64", "TIMESTAMP"}

CTypeFloating(id) == id \in {"FLOAT", "DOUBLE"}

\* DecimalType::byte_width()
DecimalByteWidth(type) == IF type.id = "DECIMAL128" THEN 16 ELSE 32

\* sizeof(c_type) of the Parquet physical types.
PhysicalWidth(p) ==
    CASE p = "BOOLEAN" -> 1
      [] p \in {"INT32", "FLOAT"} -> 4
      [] p \in {"INT64", "DOUBLE"} -> 8
      [] p = "INT96" -> 12
      [] OTHER -> 0

PrimitivePhysicalTypes == {"BOOLEAN", "INT32", "INT64", "INT96", "FLOAT", "DOUBLE"}
PhysicalTypes == PrimitivePhysicalTypes \cup {"BYTE_ARRAY", "FIXED_LEN_BYTE_ARRAY"}

-----------------------------------------------------------------------------
(* Buffers, statistics and arrays.                                         *)

NullBuffer == [id |-> "nullptr", data |-> <<>>]

Buffer(id, data) == [id |-> id, data |-> data]

\* A default-constructed ::arrow::ArrayStatistics is never attached: "set" says
\* whether ArrayData::statistics points to one.  Optional members are sequences
\* of length 0 or 1.
NoStatistics ==
    [set |-> FALSE, null_count |-> <<>>, distinct_count |-> <<>>, min |-> <<>>,
     max |-> <<>>, is_min_exact |-> FALSE, is_max_exact |-> FALSE]

\* std::make_shared<::arrow::ArrayData>(type, length, buffers, null_count): the
\* members are stored as given.
ArrayDataCtor(type, length, validity, values, null_count) ==
    [type |-> type, length |-> length, null_count |-> null_count,
     validity |-> validity, values |-> values, offsets |-> <<>>,
     statistics |-> NoStatistics]

\* ::arrow::ArrayData::Make, which the array constructors taking buffers also
\* go through: an array without nulls keeps no validity bitmap, and an unknown
\* null count without a bitmap is zero.
ArrayDataMake(type, length, validity, values, null_count) ==
    IF type.id = "NA"
    THEN ArrayDataCtor(type, length, NullBuffer, values, length)
    ELSE IF null_count = 0
    THEN ArrayDataCtor(type, length, NullBuffer, values, 0)
    ELSE IF null_count = kUnknownNullCount /\ validity = NullBuffer
    THEN ArrayDataCtor(type, length, NullBuffer, values, 0)
    ELSE ArrayDataCtor(type, length, validity, values, null_count)

\* std::make_shared<::arrow::NullArray>(length)
NullArray(length) == ArrayDataMake(T("NA"), length, NullBuffer, NullBuffer, length)

\* ArrayData::GetNullCount(): the null count an array reports.
CountZeros(bits) == Cardinality({i \in 1..Len(bits) : bits[i] = 0})

GetNullCount(a) ==
    IF a.null_count # kUnknownNullCount THEN a.null_count
    ELSE IF a.validity = NullBuffer THEN 0
    ELSE CountZeros(a.validity.data)

-----------------------------------------------------------------------------
(* 64-bit arithmetic on little-endian byte sequences.                      *)

\* Digit k (from 1) of the product of the byte sequences a and b, before carries.
MulColumn(a, b, k) ==
    LET idx == {i \in 1..Len(a) : k + 1 - i >= 1 /\ k + 1 - i <= Len(b)}
        RECURSIVE Sum(_)
        Sum(S) == IF S = {} THEN 0
                  ELSE LET i == CHOOSE x \in S : TRUE
                       IN a[i] * b[k + 1 - i] + Sum(S \ {i})
    IN Sum(idx)

RECURSIVE Carry(_, _, _, _)
\* The low n bytes of the column sums cols(k), carries propagated from column k.
Carry(cols, k, n, c) ==
    IF k > n THEN <<>>
    ELSE LET t == cols[k] + c
         IN <<t % 256>> \o Carry(cols, k + 1, n, t \div 256)

\* a * b modulo 2^(8n); a and b are n-byte two's-complement values.
MulWrap(a, b, n) == Carry([k \in 1..n |-> MulColumn(a, b, k)], 1, n, 0)

\* a + b modulo 2^(8n).
AddWrap(a, b, n) == Carry([k \in 1..n |-> a[k] + b[k]], 1, n, 0)

\* -a modulo 2^(8n).
NegWrap(a, n) == AddWrap([k \in 1..n |-> 255 - a[k]], ToBytes(1, n), n)

IsNegative(a) == a[Len(a)] >= 128

RECURSIVE DivStep(_, _, _, _)
\* Long division of the unsigned little-endian value a by d (d < 2^23), from
\* byte k downwards with remainder r: the quotient's bytes k..1, high first.
DivStep(a, d, k, r) ==
    IF k = 0 THEN <<>>
    ELSE LET t == r * 256 + a[k]
         IN <<t \div d>> \o DivStep(a, d, k - 1, t % d)

UDiv(a, d) == Reverse(DivStep(a, d, Len(a), 0))

\* C++ signed division of an n-byte value by a positive d: toward zero.
SDiv(a, d, n) == IF IsNegative(a) THEN NegWrap(UDiv(NegWrap(a, n), d), n) ELSE UDiv(a, d)

HasUndef(bytes) == \E k \in 1..Len(bytes) : bytes[k] = Undef

-----------------------------------------------------------------------------
(* The reader, as the strategies use it.  A reader is                      *)
(*   [kind, physical, values, valid_bits, values_written, null_count,      *)
(*    nullable_values, read_dictionary, chunk_type, chunks]:               *)
(* "kind" is the dynamic class of the object ("primitive": a typed reader  *)
(* only; "binary": also a BinaryRecordReader; "dictionary": also a         *)
(* DictionaryRecordReader).  Each strategy returns, with its result, the   *)
(* log of the reader operations it performed, in order.                    *)

\* RecordReader::ReleaseValues() and ReleaseIsValid(): the buffers handed over.
ReleaseValues(r) == r.values
ReleaseIsValid(r) == r.valid_bits

\* The outcome of a strategy: the Status, the Datum it left in "result", the
\* reader operations performed and the number of buffers allocated.
NoneDatum == [kind |-> "NONE", type |-> T("NA"), chunks |-> <<>>]
ArrayDatum(a) == [kind |-> "ARRAY", type |-> a.type, chunks |-> <<a>>]
ChunkedDatum(type, chunks) == [kind |-> "CHUNKED_ARRAY", type |-> type, chunks |-> chunks]

Outcome(st, datum, path, log, allocs) ==
    [status |-> st, datum |-> datum, path |-> path, log |-> log, allocs |-> allocs]

-----------------------------------------------------------------------------
(* AttachStatistics<ArrowType, ParquetType>.  The chunk metadata is        *)
(*   [present, has_statistics, physical, HasDistinctCount, distinct_count, *)
(*    HasMinMax, min, max]; min and max are values of the column's         *)
(* physical C type.                                                        *)

\* typed_statistics->min() read through TypedStatistics<ParquetType>: the
\* statistics of a column of another physical type are not of that class.
TypedStat(md, v, parquetT) ==
    IF md.physical = parquetT THEN v ELSE Repeat(Undef, PhysicalWidth(parquetT))

\* A faulty variant of StatValue that widens the physical value without
\* converting it to the target's C type first.
StatValueUnconverted(v, arrowId) ==
    IF arrowId = "BOOL"
    THEN [tag |-> "bool", bytes |-> <<IF v[1] = Undef THEN Undef ELSE IF v[1] # 0 THEN 1 ELSE 0>>]
    ELSE IF CTypeFloating(arrowId)
    THEN [tag |-> "double", bytes |-> v]
    ELSE IF CTypeSigned(arrowId)
    THEN [tag |-> "int64", bytes |-> StaticCast(v, 8)]
    ELSE [tag |-> "uint64", bytes |-> ZeroExtend(StaticCast(v, Len(v)), 8)]

\* const ArrowCType x = <physical value>; then the cast to the statistics' 64-bit
\* (or bool, or double) value type.
StatValue(v, arrowId) ==
    IF arrowId = "BOOL"
    THEN [tag |-> "bool", bytes |-> <<IF v[1] = Undef THEN Undef ELSE IF v[1] # 0 THEN 1 ELSE 0>>]
    ELSE IF CTypeFloating(arrowId)
    THEN [tag |-> "double", bytes |-> v]
    ELSE IF CTypeSigned(arrowId)
    THEN [tag |-> "int64", bytes |-> StaticCast(StaticCast(v, CTypeWidth(arrowId)), 8)]
    ELSE [tag |-> "uint64", bytes |-> ZeroExtend(StaticCast(v, CTypeWidth(arrowId)), 8)]

\* A faulty variant of AttachStatistics that marks every summary exact.
AttachStatisticsAlwaysExact(data, md, arrowId, parquetT) ==
    IF ~md.present THEN data
    ELSE IF data.null_count = kUnknownNullCount /\ ~md.has_statistics THEN data
    ELSE LET minmax == md.has_statistics /\ md.HasMinMax
         IN [data EXCEPT !.statistics =
               [set |-> TRUE,
                null_count |-> IF data.null_count # kUnknownNullCount
                               THEN <<data.null_count>> ELSE <<>>,
                distinct_count |-> IF md.has_statistics /\ md.HasDistinctCount
                                   THEN <<md.distinct_count>> ELSE <<>>,
                min |-> IF minmax THEN <<StatValue(TypedStat(md, md.min, parquetT), arrowId)>>
                        ELSE <<>>,
                max |-> IF minmax THEN <<StatValue(TypedStat(md, md.max, parquetT), arrowId)>>
                        ELSE <<>>,
                is_min_exact |-> TRUE,
                is_max_exact |-> TRUE]]

\* A faulty variant of AttachStatistics that records the distinct count only next to min/max.
AttachStatisticsDistinctWithMinMax(data, md, arrowId, parquetT) ==
    IF ~md.present THEN data
    ELSE IF data.null_count = kUnknownNullCount /\ ~md.has_statistics THEN data
    ELSE LET minmax == md.has_statistics /\ md.HasMinMax
         IN [data EXCEPT !.statistics =
               [set |-> TRUE,
                null_count |-> IF data.null_count # kUnknownNullCount
                               THEN <<data.null_count>> ELSE <<>>,
                distinct_count |-> IF minmax /\ md.HasDistinctCount
                                   THEN <<md.distinct_count>> ELSE <<>>,
                min |-> IF minmax THEN <<StatValue(TypedStat(md, md.min, parquetT), arrowId)>>
                        ELSE <<>>,
                max |-> IF minmax THEN <<StatValue(TypedStat(md, md.max, parquetT), arrowId)>>
                        ELSE <<>>,
                is_min_exact |-> minmax,
                is_max_exact |-> minmax]]

\* AttachStatistics<ArrowType, ParquetType>
AttachStatistics(data, md, arrowId, parquetT) ==
    IF ~md.present THEN data
    ELSE IF data.null_count = kUnknownNullCount /\ ~md.has_statistics THEN data
    ELSE LET minmax == md.has_statistics /\ md.HasMinMax
         IN [data EXCEPT !.statistics =
               [set |-> TRUE,
                null_count |-> IF data.null_count # kUnknownNullCount
                               THEN <<data.null_count>> ELSE <<>>,
                distinct_count |-> IF md.has_statistics /\ md.HasDistinctCount
                                   THEN <<md.distinct_count>> ELSE <<>>,
                min |-> IF minmax THEN <<StatValue(TypedStat(md, md.min, parquetT), arrowId)>>
                        ELSE <<>>,
                max |-> IF minmax THEN <<StatValue(TypedStat(md, md.max, parquetT), arrowId)>>
                        ELSE <<>>,
                is_min_exact |-> minmax,
                is_max_exact |-> minmax]]

-----------------------------------------------------------------------------
(* The primitive strategies.  env is what the surroundings decide:         *)
(* [alloc_budget, cast]: how many AllocateBuffer calls succeed, and what   *)
(* the cast engine answers.                                                *)

\* A faulty variant of TransferZeroCopy that copies the values into a fresh buffer.
TransferZeroCopyCopying(r, md, field, arrowId, parquetT) ==
    LET data == ArrayDataCtor(field.type, r.values_written,
                              IF field.nullable THEN ReleaseIsValid(r) ELSE NullBuffer,
                              Buffer("alloc", r.values.data),
                              IF field.nullable THEN r.null_count ELSE 0)
    IN Outcome("OK", ArrayDatum(AttachStatistics(data, md, arrowId, parquetT)),
               "TransferZeroCopy", <<"values">>, 1)

\* A faulty variant of TransferZeroCopy that reads values() after releasing them.
TransferZeroCopyReadingReleased(r, md, field, arrowId, parquetT) ==
    LET data == IF field.nullable
                THEN ArrayDataCtor(field.type, r.values_written, ReleaseIsValid(r),
                                   ReleaseValues(r), r.null_count)
                ELSE ArrayDataCtor(field.type, r.values_written, NullBuffer,
                                   ReleaseValues(r), 0)
        log == IF field.nullable THEN <<"ReleaseIsValid", "ReleaseValues", "values">>
               ELSE <<"ReleaseValues", "values">>
    IN Outcome("OK", ArrayDatum(AttachStatistics(data, md, arrowId, parquetT)),
               "TransferZeroCopy", log, 0)

\* TransferZeroCopy<ArrowType, ParquetType>
TransferZeroCopy(r, md, field, arrowId, parquetT) ==
    LET data == IF field.nullable
                THEN ArrayDataCtor(field.type, r.values_written, ReleaseIsValid(r),
                                   ReleaseValues(r), r.null_count)
                ELSE ArrayDataCtor(field.type, r.values_written, NullBuffer,
                                   ReleaseValues(r), 0)
        log == IF field.nullable THEN <<"ReleaseIsValid", "ReleaseValues">>
               ELSE <<"ReleaseValues">>
    IN Outcome("OK", ArrayDatum(AttachStatistics(data, md, arrowId, parquetT)),
               "TransferZeroCopy", log, 0)

\* A faulty variant of CopyConverted that copies the bytes without converting the elements.
CopyConvertedBlock(data, length, srcWidth, dstWidth) ==
    [k \in 1..(length * dstWidth) |-> IF k <= Len(data) THEN data[k] ELSE Undef]

\* std::copy(values, values + length, out_ptr): element i converted to ArrowCType.
CopyConverted(data, length, srcWidth, dstWidth) ==
    Flatten([i \in 1..length |-> StaticCast(ElementAt(data, i, srcWidth), dstWidth)])

\* A faulty variant of TransferInt that takes the validity bitmap before it
\* allocates the output buffer.
TransferIntReleasingFirst(r, md, field, arrowId, parquetT, env) ==
    IF env.alloc_budget < 1
    THEN Outcome("OutOfMemory", NoneDatum, "TransferInt",
                 IF field.nullable THEN <<"ReleaseIsValid">> ELSE <<>>, 0)
    ELSE LET length == r.values_written
             data == Buffer("alloc", CopyConverted(r.values.data, length,
                                                   PhysicalWidth(parquetT), CTypeWidth(arrowId)))
             array_data ==
                 ArrayDataMake(field.type, length,
                               IF field.nullable THEN ReleaseIsValid(r) ELSE NullBuffer,
                               data,
                               IF field.nullable THEN r.null_count ELSE 0)
             log == (IF field.nullable THEN <<"ReleaseIsValid">> ELSE <<>>) \o <<"values">>
         IN Outcome("OK", ArrayDatum(AttachStatistics(array_data, md, arrowId, parquetT)),
                    "TransferInt", log, 1)

\* TransferInt<ArrowType, ParquetType>
TransferInt(r, md, field, arrowId, parquetT, env) ==
    IF env.alloc_budget < 1
    THEN Outcome("OutOfMemory", NoneDatum, "TransferInt", <<>>, 0)
    ELSE LET length == r.values_written
             data == Buffer("alloc", CopyConverted(r.values.data, length,
                                                   PhysicalWidth(parquetT), CTypeWidth(arrowId)))
             array_data ==
                 ArrayDataMake(field.type, length,
                               IF field.nullable THEN ReleaseIsValid(r) ELSE NullBuffer,
                               data,
                               IF field.nullable THEN r.null_count ELSE 0)
             log == <<"values">> \o (IF field.nullable THEN <<"ReleaseIsValid">> ELSE <<>>)
         IN Outcome("OK", ArrayDatum(AttachStatistics(array_data, md, arrowId, parquetT)),
                    "TransferInt", log, 1)

\* bit_util::BytesForBits
BytesForBits(bits) == (bits + 7) \div 8

\* A faulty variant of PackByte that numbers the bits of a byte from the most significant.
RECURSIVE PackByteMsbFirst(_, _, _, _)
PackByteMsbFirst(values, length, k, j) ==
    IF j > 7 THEN 0
    ELSE LET i == 8 * (k - 1) + j + 1
             bit == IF i <= length /\ values[i] # 0 THEN 1 ELSE 0
         IN bit * 2^(7 - j) + PackByteMsbFirst(values, length, k, j + 1)

RECURSIVE PackByte(_, _, _, _)
\* Byte k (from 1) of the bitmap: bit j of it is value 8(k-1)+j, for j from `j` to 7.
PackByte(values, length, k, j) ==
    IF j > 7 THEN 0
    ELSE LET i == 8 * (k - 1) + j + 1
             rest == PackByte(values, length, k, j + 1)
             bit == IF i <= length /\ values[i] # 0 THEN 1 ELSE 0
         IN bit + 2 * rest

\* The memset and the SetBit loop of TransferBool.
PackBits(values, length) ==
    [k \in 1..BytesForBits(length) |->
        IF \E i \in (8 * (k - 1) + 1)..(8 * k) : i <= length /\ values[i] = Undef
        THEN Undef ELSE PackByte(values, length, k, 0)]

\* A faulty variant of TransferBool that attaches no statistics.
TransferBoolNoStatistics(r, md, nullable, env) ==
    IF env.alloc_budget < 1
    THEN Outcome("OutOfMemory", NoneDatum, "TransferBool", <<>>, 0)
    ELSE LET length == r.values_written
             values == [i \in 1..length |-> ElementAt(r.values.data, i, 1)[1]]
             data == Buffer("alloc", PackBits(values, length))
             array_data ==
                 IF nullable
                 THEN ArrayDataMake(T("BOOL"), length, ReleaseIsValid(r), data, r.null_count)
                 ELSE ArrayDataMake(T("BOOL"), length, NullBuffer, data, 0)
             log == <<"values">> \o (IF nullable THEN <<"ReleaseIsValid">> ELSE <<>>)
         IN Outcome("OK", ArrayDatum(array_data),
                    "TransferBool", log, 1)

\* TransferBool
TransferBool(r, md, nullable, env) ==
    IF env.alloc_budget < 1
    THEN Outcome("OutOfMemory", NoneDatum, "TransferBool", <<>>, 0)
    ELSE LET length == r.values_written
             values == [i \in 1..length |-> ElementAt(r.values.data, i, 1)[1]]
             data == Buffer("alloc", PackBits(values, length))
             array_data ==
                 IF nullable
                 THEN ArrayDataMake(T("BOOL"), length, ReleaseIsValid(r), data, r.null_count)
                 ELSE ArrayDataMake(T("BOOL"), length, NullBuffer, data, 0)
             log == <<"values">> \o (IF nullable THEN <<"ReleaseIsValid">> ELSE <<>>)
         IN Outcome("OK", ArrayDatum(AttachStatistics(array_data, md, "BOOL", "BOOLEAN")),
                    "TransferBool", log, 1)

-----------------------------------------------------------------------------
(* Date64 and Int96 timestamps.                                            *)

kMillisecondsPerDay == 86400000
kJulianToUnixEpochDays == 2440588
kSecondsPerDay == 86400

\* A faulty variant of Date64Value that multiplies in 32 bits and widens the
\* product.
Date64ValueNarrowProduct(v) ==
    IF HasUndef(v) THEN Repeat(Undef, 8)
    ELSE StaticCast(MulWrap(v, ToBytes(kMillisecondsPerDay, 4), 4), 8)

\* static_cast<int64_t>(values[i]) * kMillisecondsPerDay.  The product of an
\* int32 and 86,400,000 is below 2^63 in magnitude, so the wrapped product is
\* the product.
Date64Value(v) ==
    IF HasUndef(v) THEN Repeat(Undef, 8)
    ELSE MulWrap(StaticCast(v, 8), ToBytes(kMillisecondsPerDay, 8), 8)

\* TransferDate64
TransferDate64(r, field, env) ==
    IF env.alloc_budget < 1
    THEN Outcome("OutOfMemory", NoneDatum, "TransferDate64", <<"values">>, 0)
    ELSE LET length == r.values_written
             data == Buffer("alloc",
                            Flatten([i \in 1..length |-> Date64Value(ElementAt(r.values.data, i, 4))]))
             a == IF field.nullable
                  THEN ArrayDataMake(field.type, length, ReleaseIsValid(r), data, r.null_count)
                  ELSE ArrayDataMake(field.type, length, NullBuffer, data, 0)
             log == <<"values">> \o (IF field.nullable THEN <<"ReleaseIsValid">> ELSE <<>>)
         IN Outcome("OK", ArrayDatum(a), "TransferDate64", log, 1)

\* DecodeInt96Timestamp: the days since the Unix epoch (the third 32-bit word
\* less the Julian day of the epoch) and the nanoseconds within the day (the
\* first two words).
Int96Days(v) ==
    AddWrap(ZeroExtend(SubSeq(v, 9, 12), 8), NegWrap(ToBytes(kJulianToUnixEpochDays, 8), 8), 8)

Int96Nanos(v) == SubSeq(v, 1, 8)

\* kSecondsPerDay times 10^(3k), as 8 bytes.
RECURSIVE PerDay(_)
PerDay(k) == IF k = 0 THEN ToBytes(kSecondsPerDay, 8)
             ELSE MulWrap(PerDay(k - 1), ToBytes(1000, 8), 8)

RECURSIVE DivThousands(_, _)
\* a / 10^(3k), toward zero.
DivThousands(a, k) == IF k = 0 THEN a ELSE DivThousands(SDiv(a, 1000, 8), k - 1)

\* Int96GetNanoSeconds, Int96GetMicroSeconds, Int96GetMilliSeconds, Int96GetSeconds
Int96GetUnit(v, unit) ==
    LET k == CASE unit = "NANO" -> 3 [] unit = "MICRO" -> 2 [] unit = "MILLI" -> 1
               [] OTHER -> 0
    IN AddWrap(MulWrap(Int96Days(v), PerDay(k), 8), DivThousands(Int96Nanos(v), 3 - k), 8)

\* A faulty variant of Int96Value whose guard looks at the whole value, not
\* at the third word alone.
Int96ValueWholeValueGuard(v, unit) ==
    IF HasUndef(v) THEN Repeat(Undef, 8)
    ELSE IF v = Repeat(0, 12) THEN Repeat(0, 8)
    ELSE Int96GetUnit(v, unit)

\* One iteration of the loop of TransferInt96.
Int96Value(v, unit) ==
    IF HasUndef(v) THEN Repeat(Undef, 8)
    ELSE IF SubSeq(v, 9, 12) = <<0, 0, 0, 0>> THEN Repeat(0, 8)
    ELSE Int96GetUnit(v, unit)

\* TransferInt96
TransferInt96(r, field, unit, env) ==
    IF env.alloc_budget < 1
    THEN Outcome("OutOfMemory", NoneDatum, "TransferInt96", <<"values">>, 0)
    ELSE LET length == r.values_written
             data == Buffer("alloc",
                            Flatten([i \in 1..length |->
                                        Int96Value(ElementAt(r.values.data, i, 12), unit)]))
             a == IF field.nullable
                  THEN ArrayDataMake(field.type, length, ReleaseIsValid(r), data, r.null_count)
                  ELSE ArrayDataMake(field.type, length, NullBuffer, data, 0)
             log == <<"values">> \o (IF field.nullable THEN <<"ReleaseIsValid">> ELSE <<>>)
         IN Outcome("OK", ArrayDatum(a), "TransferInt96", log, 1)

-----------------------------------------------------------------------------
(* Binary and dictionary strategies.  A chunk is an array record; a        *)
(* binary array keeps its values' bytes in "values" and the value          *)
(* boundaries in "offsets" (n+1 offsets for n values); a fixed-size-binary *)
(* array has no offsets and values of type.byte_width bytes each.          *)

\* A faulty variant of ReconstructChunksWithoutNulls that keeps the null count.
ReconstructKeepingNullCount(chunks) ==
    [i \in 1..Len(chunks) |->
        IF chunks[i].validity # NullBuffer
        THEN [chunks[i] EXCEPT !.validity = NullBuffer]
        ELSE chunks[i]]

\* A faulty variant of ReconstructChunksWithoutNulls that leaves out the
\* empty chunks.
ReconstructDroppingEmpty(chunks) ==
    LET kept == SelectSeq(chunks, LAMBDA c : c.length > 0)
    IN [i \in 1..Len(kept) |->
           IF kept[i].validity # NullBuffer
           THEN [kept[i] EXCEPT !.null_count = 0, !.validity = NullBuffer]
           ELSE kept[i]]

\* ReconstructChunksWithoutNulls
ReconstructChunksWithoutNulls(chunks) ==
    [i \in 1..Len(chunks) |->
        IF chunks[i].validity # NullBuffer
        THEN [chunks[i] EXCEPT !.null_count = 0, !.validity = NullBuffer]
        ELSE chunks[i]]

\* What a successful ::arrow::compute::Cast or View of one chunk yields: an array
\* of the requested type over the same slots; the engine may leave the null
\* count to be computed on demand (env.cast = "unknown").
CastChunk(chunk, type, env) ==
    [chunk EXCEPT !.type = type,
                  !.null_count = IF env.cast = "unknown" THEN kUnknownNullCount ELSE @]

\* ViewOrCastChunkedArray: a view if possible, a cast otherwise; fails only if
\* both do.
ViewOrCastChunkedArray(chunks, logical_value_type, env) ==
    [ok |-> env.cast # "fail",
     chunks |-> [i \in 1..Len(chunks) |-> CastChunk(chunks[i], logical_value_type, env)]]

\* A faulty variant of TransferDictionary that never reconstructs the chunks.
TransferDictionaryKeepingValidity(r, logical_value_type, nullable, env) ==
    IF r.kind # "dictionary"
    THEN Outcome("Undefined", NoneDatum, "TransferDictionary", <<>>, 0)
    ELSE LET result == r.chunks
             log == <<"GetResult">>
             differs == logical_value_type # r.chunk_type
             cast == ViewOrCastChunkedArray(result, logical_value_type, env)
             viewed == IF differs THEN cast.chunks ELSE result
             type == IF differs THEN logical_value_type ELSE r.chunk_type
         IN IF differs /\ ~cast.ok
            THEN Outcome("CastFailed", NoneDatum, "TransferDictionary", log, 0)
            ELSE IF ~nullable
            THEN Outcome("OK",
                         ChunkedDatum(logical_value_type, viewed),
                         "TransferDictionary", log, 0)
            ELSE Outcome("OK", ChunkedDatum(type, viewed), "TransferDictionary", log, 0)

\* TransferDictionary
TransferDictionary(r, logical_value_type, nullable, env) ==
    IF r.kind # "dictionary"
    THEN Outcome("Undefined", NoneDatum, "TransferDictionary", <<>>, 0)
    ELSE LET result == r.chunks
             log == <<"GetResult">>
             differs == logical_value_type # r.chunk_type
             cast == ViewOrCastChunkedArray(result, logical_value_type, env)
             viewed == IF differs THEN cast.chunks ELSE result
             type == IF differs THEN logical_value_type ELSE r.chunk_type
         IN IF differs /\ ~cast.ok
            THEN Outcome("CastFailed", NoneDatum, "TransferDictionary", log, 0)
            ELSE IF ~nullable
            THEN Outcome("OK",
                         ChunkedDatum(logical_value_type, ReconstructChunksWithoutNulls(viewed)),
                         "TransferDictionary", log, 0)
            ELSE Outcome("OK", ChunkedDatum(type, viewed), "TransferDictionary", log, 0)

\* TransferBinary
TransferBinaryNoDictionary(r, logical_type_field, env) ==
    IF r.kind # "binary"
    THEN Outcome("Undefined", NoneDatum, "TransferBinary", <<>>, 0)
    ELSE LET chunks == r.chunks
             log == <<"GetBuilderChunks">>
             type == logical_type_field.type
             needs_cast == \E i \in 1..Len(chunks) : chunks[i].type # type
             casted == [i \in 1..Len(chunks) |->
                           IF chunks[i].type # type THEN CastChunk(chunks[i], type, env)
                           ELSE chunks[i]]
         IN IF needs_cast /\ env.cast = "fail"
            THEN Outcome("CastFailed", NoneDatum, "TransferBinary", log, 0)
            ELSE Outcome("OK",
                         ChunkedDatum(type, IF ~logical_type_field.nullable
                                            THEN ReconstructChunksWithoutNulls(casted)
                                            ELSE casted),
                         "TransferBinary", log, 0)

\* A faulty variant of TransferBinary that asks for the value type, not the dictionary type.
TransferBinaryUnwrapped(r, logical_type_field, env) ==
    IF r.read_dictionary
    THEN TransferDictionary(r, logical_type_field.type, logical_type_field.nullable, env)
    ELSE TransferBinaryNoDictionary(r, logical_type_field, env)

TransferBinary(r, logical_type_field, env) ==
    IF r.read_dictionary
    THEN TransferDictionary(r, Dictionary(logical_type_field.type),
                            logical_type_field.nullable, env)
    ELSE TransferBinaryNoDictionary(r, logical_type_field, env)

\* chunked_array->View(type) of TransferHalfFloat: a two-byte fixed-size binary
\* has the layout of a half float; a dictionary array has not.
ViewAsHalfFloat(datum, type, env) ==
    [ok |-> datum.type = FixedSizeBinary(2) /\ env.cast # "fail",
     chunks |-> [i \in 1..Len(datum.chunks) |-> CastChunk(datum.chunks[i], type, env)]]

\* TransferHalfFloat
TransferHalfFloat(r, field, env) ==
    LET binary == TransferBinary(r, [field EXCEPT !.type = FixedSizeBinary(2)], env)
        view == ViewAsHalfFloat(binary.datum, field.type, env)
    IN IF binary.status # "OK" THEN [binary EXCEPT !.path = "TransferHalfFloat"]
       ELSE IF ~view.ok
       THEN Outcome("CastFailed", NoneDatum, "TransferHalfFloat", binary.log, binary.allocs)
       ELSE Outcome("OK", ChunkedDatum(field.type, view.chunks), "TransferHalfFloat",
                    binary.log, binary.allocs)

-----------------------------------------------------------------------------
(* Decimals.                                                               *)

\* Array::IsNull(i)
IsNull(a, i) == a.validity # NullBuffer /\ a.validity.data[i] = 0

\* FixedSizeBinaryArray::GetValue(i) and BinaryArray::GetValue(i, &len)
FixedValue(a, i) == ElementAt(a.values.data, i, a.type.byte_width)
BinaryValue(a, i) == SubSeq(a.values.data, a.offsets[i] + 1, a.offsets[i + 1])

\* DecimalType::FromBigEndian(value, byte_width): accepts 1 to type_length
\* bytes, most significant first, and sign-extends them to the decimal's
\* width; the decimal is kept least significant byte first.
FromBigEndian(value, type_length) ==
    [ok |-> Len(value) >= 1 /\ Len(value) <= type_length,
     decimal |-> StaticCast(Reverse(value), type_length)]

\* A faulty variant of RawBytesToDecimalBytes that zero-extends.
RawBytesToDecimalBytesUnsigned(value, type_length) ==
    [ok |-> FromBigEndian(value, type_length).ok,
     bytes |-> IF Len(value) >= type_length THEN SubSeq(Reverse(value), 1, type_length)
               ELSE ZeroExtend(Reverse(value), type_length)]

\* RawBytesToDecimalBytes<DecimalType>: FromBigEndian, then ToBytes into the
\* output slot.
RawBytesToDecimalBytes(value, type_length) ==
    LET t == FromBigEndian(value, type_length)
    IN [ok |-> t.ok, bytes |-> t.decimal]

\* The first index of a sequence of per-slot results that failed, or 0.
FirstFailure(rs) ==
    IF \E i \in 1..Len(rs) : ~rs[i].ok
    THEN CHOOSE i \in 1..Len(rs) : ~rs[i].ok /\ \A j \in 1..(i - 1) : rs[j].ok
    ELSE 0

\* DecimalConverter<DecimalArrayType, FLBAType>::ConvertToDecimal
ConvertFLBAToDecimal(array, type, alloc_ok) ==
    IF array.type.id # "FIXED_SIZE_BINARY" THEN [status |-> "Undefined", array |-> array]
    ELSE IF ~alloc_ok THEN [status |-> "OutOfMemory", array |-> array]
    ELSE LET type_length == DecimalByteWidth(type)
             length == array.length
             null_count == GetNullCount(array)
             slots == [i \in 1..length |->
                         IF null_count > 0 /\ IsNull(array, i)
                         THEN [ok |-> TRUE, bytes |-> Repeat(0, type_length)]
                         ELSE RawBytesToDecimalBytes(FixedValue(array, i), type_length)]
             data == Buffer("alloc", Flatten([i \in 1..length |-> slots[i].bytes]))
         IN IF FirstFailure(slots) # 0 THEN [status |-> "Invalid", array |-> array]
            ELSE [status |-> "OK",
                  array |-> ArrayDataMake(type, length, array.validity, data, null_count)]

\* DecimalConverter<DecimalArrayType, ByteArrayType>::ConvertToDecimal.  Only
\* the first two 64-bit words of a slot are zeroed before the conversion.
ConvertByteArrayToDecimal(array, type, alloc_ok) ==
    IF array.type.id \notin {"BINARY", "STRING"} THEN [status |-> "Undefined", array |-> array]
    ELSE IF ~alloc_ok THEN [status |-> "OutOfMemory", array |-> array]
    ELSE LET type_length == DecimalByteWidth(type)
             length == array.length
             null_count == GetNullCount(array)
             slots == [i \in 1..length |->
                         LET record == BinaryValue(array, i)
                         IN IF Len(record) > type_length
                            THEN [ok |-> FALSE, bytes |-> <<>>]
                            ELSE IF (null_count > 0 /\ ~IsNull(array, i)) \/ null_count <= 0
                            THEN RawBytesToDecimalBytes(record, type_length)
                            ELSE [ok |-> TRUE,
                                  bytes |-> Repeat(0, 16) \o Repeat(Undef, type_length - 16)]]
             data == Buffer("alloc", Flatten([i \in 1..length |-> slots[i].bytes]))
         IN IF FirstFailure(slots) # 0 THEN [status |-> "Invalid", array |-> array]
            ELSE [status |-> "OK",
                  array |-> ArrayDataMake(type, length, array.validity, data, null_count)]

\* A faulty variant of ConvertToDecimal that attaches an exact summary to the chunk.
ConvertToDecimalExact(array, type, parquetT, alloc_ok) ==
    LET c == IF parquetT = "FIXED_LEN_BYTE_ARRAY" THEN ConvertFLBAToDecimal(array, type, alloc_ok)
             ELSE ConvertByteArrayToDecimal(array, type, alloc_ok)
    IN [c EXCEPT !.array.statistics =
            [NoStatistics EXCEPT !.set = TRUE, !.is_min_exact = TRUE, !.is_max_exact = TRUE]]

ConvertToDecimal(array, type, parquetT, alloc_ok) ==
    IF parquetT = "FIXED_LEN_BYTE_ARRAY" THEN ConvertFLBAToDecimal(array, type, alloc_ok)
    ELSE ConvertByteArrayToDecimal(array, type, alloc_ok)

\* TransferDecimal<DecimalArrayType, ParquetType>
TransferDecimal(r, field, parquetT, env) ==
    IF r.kind # "binary"
    THEN Outcome("Undefined", NoneDatum, "TransferDecimal", <<>>, 0)
    ELSE LET chunks == r.chunks
             log == <<"GetBuilderChunks">>
             conv == [i \in 1..Len(chunks) |->
                         LET c == ConvertToDecimal(chunks[i], field.type, parquetT,
                                                   i <= env.alloc_budget)
                         IN [ok |-> c.status = "OK", status |-> c.status, array |-> c.array]]
             f == FirstFailure(conv)
             converted == [i \in 1..Len(chunks) |-> conv[i].array]
         IN IF f # 0
            THEN Outcome(conv[f].status, NoneDatum, "TransferDecimal", log,
                         IF conv[f].status = "Invalid" THEN f ELSE f - 1)
            ELSE Outcome("OK",
                         ChunkedDatum(field.type, IF ~field.nullable
                                                  THEN ReconstructChunksWithoutNulls(converted)
                                                  ELSE converted),
                         "TransferDecimal", log, Len(chunks))

\* A faulty variant of DecimalFromInteger that zero-extends.
DecimalFromIntegerZeroExtended(v, type_length) ==
    IF HasUndef(v) THEN Repeat(Undef, type_length)
    ELSE ZeroExtend(StaticCast(v, 8), type_length)

\* The loop body of DecimalIntegerTransfer: the element, widened to int64_t,
\* as a Decimal128 or Decimal256 written by ToBytes.
DecimalFromInteger(v, type_length) ==
    IF HasUndef(v) THEN Repeat(Undef, type_length)
    ELSE StaticCast(StaticCast(v, 8), type_length)

\* A faulty variant of DecimalIntegerTransfer that looks at the field's nullability only.
DecimalIntegerTransferFieldOnly(r, field, parquetT, env) ==
    IF env.alloc_budget < 1
    THEN Outcome("OutOfMemory", NoneDatum, "DecimalIntegerTransfer", <<"values">>, 0)
    ELSE LET length == r.values_written
             type_length == DecimalByteWidth(field.type)
             data == Buffer("alloc",
                            Flatten([i \in 1..length |->
                                       DecimalFromInteger(
                                           ElementAt(r.values.data, i, PhysicalWidth(parquetT)),
                                           type_length)]))
         IN IF field.nullable
            THEN Outcome("OK",
                         ArrayDatum(ArrayDataMake(field.type, length, ReleaseIsValid(r), data,
                                                  r.null_count)),
                         "DecimalIntegerTransfer", <<"values", "ReleaseIsValid">>, 1)
            ELSE Outcome("OK",
                         ArrayDatum(ArrayDataMake(field.type, length, NullBuffer, data,
                                                  kUnknownNullCount)),
                         "DecimalIntegerTransfer", <<"values">>, 1)

\* DecimalIntegerTransfer<DecimalArrayType, ParquetIntegerType>
DecimalIntegerTransfer(r, field, parquetT, env) ==
    IF env.alloc_budget < 1
    THEN Outcome("OutOfMemory", NoneDatum, "DecimalIntegerTransfer", <<"values">>, 0)
    ELSE LET length == r.values_written
             type_length == DecimalByteWidth(field.type)
             data == Buffer("alloc",
                            Flatten([i \in 1..length |->
                                       DecimalFromInteger(
                                           ElementAt(r.values.data, i, PhysicalWidth(parquetT)),
                                           type_length)]))
         IN IF r.nullable_values /\ field.nullable
            THEN Outcome("OK",
                         ArrayDatum(ArrayDataMake(field.type, length, ReleaseIsValid(r), data,
                                                  r.null_count)),
                         "DecimalIntegerTransfer", <<"values", "ReleaseIsValid">>, 1)
            ELSE Outcome("OK",
                         ArrayDatum(ArrayDataMake(field.type, length, NullBuffer, data,
                                                  kUnknownNullCount)),
                         "DecimalIntegerTransfer", <<"values">>, 1)

-----------------------------------------------------------------------------
(* TransferColumnData.                                                     *)

Int32Targets == {"UINT8", "INT8", "UINT16", "INT16", "UINT32", "DATE32", "TIME32"}
Int64Targets == {"UINT64", "TIME64", "DURATION"}
BinaryTargets == {"FIXED_SIZE_BINARY", "BINARY", "STRING", "BINARY_VIEW", "STRING_VIEW",
                  "LARGE_BINARY", "LARGE_STRING"}

\* A faulty variant of DispatchDecimal that answers NotImplemented.
DispatchDecimalNotImplemented(r, field, cd, env) ==
    CASE cd.physical_type \in {"INT32", "INT64"} ->
             DecimalIntegerTransfer(r, field, cd.physical_type, env)
      [] cd.physical_type \in {"BYTE_ARRAY", "FIXED_LEN_BYTE_ARRAY"} ->
             TransferDecimal(r, field, cd.physical_type, env)
      [] OTHER -> Outcome("NotImplemented", NoneDatum, "none", <<>>, 0)

\* The switch on descr->physical_type() of the DECIMAL128 and DECIMAL256 cases.
DispatchDecimal(r, field, cd, env) ==
    CASE cd.physical_type \in {"INT32", "INT64"} ->
             DecimalIntegerTransfer(r, field, cd.physical_type, env)
      [] cd.physical_type \in {"BYTE_ARRAY", "FIXED_LEN_BYTE_ARRAY"} ->
             TransferDecimal(r, field, cd.physical_type, env)
      [] OTHER -> Outcome("Invalid", NoneDatum, "none", <<>>, 0)

\* A faulty variant of DispatchTimestamp that takes every unit to the zero-copy path.
DispatchTimestampNoUnitCheck(r, md, field, cd, env) ==
    IF cd.physical_type = "INT96"
    THEN TransferInt96(r, field, field.type.unit, env)
    ELSE TransferZeroCopy(r, md, field, "INT64", "INT64")

\* The TIMESTAMP case.
DispatchTimestamp(r, md, field, cd, env) ==
    IF cd.physical_type = "INT96"
    THEN TransferInt96(r, field, field.type.unit, env)
    ELSE IF field.type.unit \in {"MILLI", "MICRO", "NANO"}
    THEN TransferZeroCopy(r, md, field, "INT64", "INT64")
    ELSE Outcome("NotImplemented", NoneDatum, "none", <<>>, 0)

\* The HALF_FLOAT case.
DispatchHalfFloat(r, field, cd, env) ==
    IF cd.physical_type # "FIXED_LEN_BYTE_ARRAY"
    THEN Outcome("Invalid", NoneDatum, "none", <<>>, 0)
    ELSE IF cd.type_length # CTypeWidth("HALF_FLOAT")
    THEN Outcome("Invalid", NoneDatum, "none", <<>>, 0)
    ELSE TransferHalfFloat(r, field, env)

\* The switch on value_field->type()->id(): the strategy's outcome, before the
\* result is handed to *out.
Dispatch(r, md, field, cd, env) ==
    LET id == field.type.id
    IN CASE id = "DICTIONARY" -> TransferDictionary(r, field.type, field.nullable, env)
         [] id = "NA" ->
                Outcome("OK", ArrayDatum(NullArray(r.values_written)), "NullArray", <<>>, 0)
         [] id = "INT32" -> TransferZeroCopy(r, md, field, "INT32", "INT32")
         [] id = "INT64" -> TransferZeroCopy(r, md, field, "INT64", "INT64")
         [] id = "FLOAT" -> TransferZeroCopy(r, md, field, "FLOAT", "FLOAT")
         [] id = "DOUBLE" -> TransferZeroCopy(r, md, field, "DOUBLE", "DOUBLE")
         [] id = "BOOL" -> TransferBool(r, md, field.nullable, env)
         [] id \in Int32Targets -> TransferInt(r, md, field, id, "INT32", env)
         [] id \in Int64Targets -> TransferInt(r, md, field, id, "INT64", env)
         [] id = "DATE64" -> TransferDate64(r, field, env)
         [] id \in BinaryTargets -> TransferBinary(r, field, env)
         [] id = "HALF_FLOAT" -> DispatchHalfFloat(r, field, cd, env)
         [] id \in {"DECIMAL128", "DECIMAL256"} -> DispatchDecimal(r, field, cd, env)
         [] id = "TIMESTAMP" -> DispatchTimestamp(r, md, field, cd, env)
         [] OTHER -> Outcome("NotImplemented", NoneDatum, "none", <<>>, 0)

\* The caller's *out before the call, and what the tail of TransferColumnData
\* assigns to it.
NoOut == [set |-> FALSE, type |-> T("NA"), chunks |-> <<>>]

\* A faulty variant of Publish that forgets the chunked-array branch.
PublishArrayOnly(datum, before) ==
    IF datum.kind = "ARRAY"
    THEN [set |-> TRUE, type |-> datum.type, chunks |-> datum.chunks]
    ELSE before

\* Lines 978-984: an array is wrapped into a one-chunk chunked array, a chunked
\* array is handed over as it is; any other kind leaves *out alone.
Publish(datum, before) ==
    IF datum.kind \in {"ARRAY", "CHUNKED_ARRAY"}
    THEN [set |-> TRUE, type |-> datum.type, chunks |-> datum.chunks]
    ELSE before

\* A faulty variant of AssignOut that writes *out before looking at the status.
AssignOutEarly(o, before) ==
    [set |-> TRUE, type |-> o.datum.type, chunks |-> o.datum.chunks]

\* What the call leaves in *out: every error returns from inside the switch,
\* before the assignments at the end of the function.
AssignOut(o, before) == IF o.status = "OK" THEN Publish(o.datum, before) ELSE before

\* The reader after the operations in log: a released buffer is replaced by a
\* fresh empty one, delivered chunks are gone.
FreshBuffer == [id |-> "fresh", data |-> <<>>]

ReaderAfter(r, log) ==
    LET did(op) == \E i \in 1..Len(log) : log[i] = op
    IN [r EXCEPT !.values = IF did("ReleaseValues") THEN FreshBuffer ELSE @,
                 !.valid_bits = IF did("ReleaseIsValid") /\ r.nullable_values
                                THEN FreshBuffer ELSE @,
                 !.chunks = IF did("GetBuilderChunks") \/ did("GetResult") THEN <<>> ELSE @]

-----------------------------------------------------------------------------
(* StatisticsAsScalars.  A Statistics is [HasMinMax, descr, min, max]: min *)
(* and max are the little-endian bytes of the physical value, or for byte  *)
(* arrays the encoded bytes (EncodeMin / EncodeMax).  The descriptor is    *)
(* [present, physical_type, type_length, logical]; a logical type is       *)
(* [type, bit_width, is_signed, unit, precision, scale].  A scalar is      *)
(* [set, type, value]; the type of a scalar is                             *)
(* [id, unit, byte_width, precision, scale].                               *)

LogicalType(type, bit_width, is_signed, unit, precision, scale) ==
    [type |-> type, bit_width |-> bit_width, is_signed |-> is_signed, unit |-> unit,
     precision |-> precision, scale |-> scale]

NoLogicalType == LogicalType("NONE", 0, FALSE, "NONE", 0, 0)

ColumnDescr(p, type_length, logical) ==
    [present |-> TRUE, physical_type |-> p, type_length |-> type_length, logical |-> logical]

\* statistics.descr() == nullptr
NullDescr ==
    [present |-> FALSE, physical_type |-> "NONE", type_length |-> 0, logical |-> NoLogicalType]

ScalarType(id, unit, byte_width, precision, scale) ==
    [id |-> id, unit |-> unit, byte_width |-> byte_width, precision |-> precision,
     scale |-> scale]

PlainScalarType(id) == ScalarType(id, "NONE", 0, 0, 0)

\* A null std::shared_ptr<Scalar>, and a scalar.
NoScalar == [set |-> FALSE, type |-> PlainScalarType("NA"), value |-> <<>>]
Scalar(type, value) == [set |-> TRUE, type |-> type, value |-> value]

\* What a call leaves: the status and its message, and *min and *max.
ScalarsResult(st, message, min, max) ==
    [status |-> st, message |-> message, min |-> min, max |-> max]

\* ::arrow::MakeScalar(type, value) for a value the type's scalar can be built from.
MakeScalar(type, value) == [ok |-> TRUE, scalar |-> Scalar(type, value)]

\* MakeMinMaxScalar<CType, StatisticsType>
MakeMinMaxScalar(statistics, ctype) ==
    ScalarsResult("OK", "",
                  Scalar(PlainScalarType(ctype), StaticCast(statistics.min, CTypeWidth(ctype))),
                  Scalar(PlainScalarType(ctype), StaticCast(statistics.max, CTypeWidth(ctype))))

\* MakeMinMaxTypedScalar<CType, StatisticsType>
MakeMinMaxTypedScalar(statistics, type, before) ==
    LET a == MakeScalar(type, statistics.min)
        b == MakeScalar(type, statistics.max)
    IN IF ~a.ok THEN ScalarsResult("NotImplemented", "MakeScalar", before.min, before.max)
       ELSE IF ~b.ok THEN ScalarsResult("NotImplemented", "MakeScalar", a.scalar, before.max)
       ELSE ScalarsResult("OK", "", a.scalar, b.scalar)

\* A faulty variant of MakeMinMaxIntegralScalar that ignores the signedness.
MakeMinMaxIntegralScalarSigned(statistics, before) ==
    LET integer == statistics.descr.logical
        is_signed == TRUE
    IN CASE integer.bit_width = 8 ->
                MakeMinMaxScalar(statistics, IF is_signed THEN "INT8" ELSE "UINT8")
         [] integer.bit_width = 16 ->
                MakeMinMaxScalar(statistics, IF is_signed THEN "INT16" ELSE "UINT16")
         [] integer.bit_width = 32 ->
                MakeMinMaxScalar(statistics, IF is_signed THEN "INT32" ELSE "UINT32")
         [] integer.bit_width = 64 ->
                MakeMinMaxScalar(statistics, IF is_signed THEN "INT64" ELSE "UINT64")
         [] OTHER -> ScalarsResult("OK", "", before.min, before.max)

\* A faulty variant of MakeMinMaxIntegralScalar whose switch lacks the 64-bit case.
MakeMinMaxIntegralScalarNo64(statistics, before) ==
    LET integer == statistics.descr.logical
        is_signed == integer.is_signed
    IN CASE integer.bit_width = 8 ->
                MakeMinMaxScalar(statistics, IF is_signed THEN "INT8" ELSE "UINT8")
         [] integer.bit_width = 16 ->
                MakeMinMaxScalar(statistics, IF is_signed THEN "INT16" ELSE "UINT16")
         [] integer.bit_width = 32 ->
                MakeMinMaxScalar(statistics, IF is_signed THEN "INT32" ELSE "UINT32")
         [] OTHER -> ScalarsResult("OK", "", before.min, before.max)

\* MakeMinMaxIntegralScalar
MakeMinMaxIntegralScalar(statistics, before) ==
    LET integer == statistics.descr.logical
        is_signed == integer.is_signed
    IN CASE integer.bit_width = 8 ->
                MakeMinMaxScalar(statistics, IF is_signed THEN "INT8" ELSE "UINT8")
         [] integer.bit_width = 16 ->
                MakeMinMaxScalar(statistics, IF is_signed THEN "INT16" ELSE "UINT16")
         [] integer.bit_width = 32 ->
                MakeMinMaxScalar(statistics, IF is_signed THEN "INT32" ELSE "UINT32")
         [] integer.bit_width = 64 ->
                MakeMinMaxScalar(statistics, IF is_signed THEN "INT64" ELSE "UINT64")
         [] OTHER -> ScalarsResult("OK", "", before.min, before.max)

\* Decimal128Type::kMaxPrecision, Decimal256Type::kMaxPrecision
kMaxPrecision128 == 38
kMaxPrecision256 == 76

\* Decimal128Type::Make, Decimal256Type::Make
DecimalTypeMake(id, precision, scale) ==
    [ok |-> precision >= 1
            /\ precision <= (IF id = "DECIMAL128" THEN kMaxPrecision128 ELSE kMaxPrecision256),
     type |-> ScalarType(id, "NONE", IF id = "DECIMAL128" THEN 16 ELSE 32, precision, scale)]

\* FromInt32 of the schema conversion: the arrow type of an INT32 column with
\* the given logical type.
FromInt32(logical) ==
    CASE logical.type = "INT" ->
            IF logical.bit_width \in {8, 16, 32}
            THEN [status |-> "OK",
                  type |-> PlainScalarType(
                      CASE logical.bit_width = 8 -> IF logical.is_signed THEN "INT8" ELSE "UINT8"
                        [] logical.bit_width = 16 ->
                               IF logical.is_signed THEN "INT16" ELSE "UINT16"
                        [] OTHER -> IF logical.is_signed THEN "INT32" ELSE "UINT32")]
            ELSE [status |-> "TypeError", type |-> PlainScalarType("NA")]
      [] logical.type = "DECIMAL" ->
            LET t == DecimalTypeMake("DECIMAL128", logical.precision, logical.scale)
            IN [status |-> IF t.ok THEN "OK" ELSE "Invalid", type |-> t.type]
      [] logical.type = "DATE" -> [status |-> "OK", type |-> PlainScalarType("DATE32")]
      [] logical.type = "TIME" ->
            IF logical.unit = "MILLIS"
            THEN [status |-> "OK", type |-> ScalarType("TIME32", "MILLI", 0, 0, 0)]
            ELSE [status |-> "TypeError", type |-> PlainScalarType("NA")]
      [] logical.type = "NONE" -> [status |-> "OK", type |-> PlainScalarType("INT32")]
      [] OTHER -> [status |-> "NotImplemented", type |-> PlainScalarType("NA")]

\* FromInt64 of the schema conversion.
FromInt64(logical) ==
    CASE logical.type = "INT" ->
            IF logical.bit_width = 64
            THEN [status |-> "OK",
                  type |-> PlainScalarType(IF logical.is_signed THEN "INT64" ELSE "UINT64")]
            ELSE [status |-> "TypeError", type |-> PlainScalarType("NA")]
      [] logical.type = "DECIMAL" ->
            LET t == DecimalTypeMake("DECIMAL128", logical.precision, logical.scale)
            IN [status |-> IF t.ok THEN "OK" ELSE "Invalid", type |-> t.type]
      [] logical.type = "TIMESTAMP" ->
            IF logical.unit \in {"MILLIS", "MICROS", "NANOS"}
            THEN [status |-> "OK",
                  type |-> ScalarType("TIMESTAMP",
                                      CASE logical.unit = "MILLIS" -> "MILLI"
                                        [] logical.unit = "MICROS" -> "MICRO"
                                        [] OTHER -> "NANO", 0, 0, 0)]
            ELSE [status |-> "NotImplemented", type |-> PlainScalarType("NA")]
      [] logical.type = "TIME" ->
            IF logical.unit \in {"MICROS", "NANOS"}
            THEN [status |-> "OK",
                  type |-> ScalarType("TIME64",
                                      IF logical.unit = "MICROS" THEN "MICRO" ELSE "NANO",
                                      0, 0, 0)]
            ELSE [status |-> "TypeError", type |-> PlainScalarType("NA")]
      [] logical.type = "NONE" -> [status |-> "OK", type |-> PlainScalarType("INT64")]
      [] OTHER -> [status |-> "NotImplemented", type |-> PlainScalarType("NA")]

\* FromInt32Statistics
FromInt32Statistics(statistics, logical, before) ==
    LET t == FromInt32(logical)
    IN IF t.status # "OK" THEN ScalarsResult(t.status, "FromInt32", before.min, before.max)
       ELSE CASE logical.type = "INT" -> MakeMinMaxIntegralScalar(statistics, before)
              [] logical.type \in {"DATE", "TIME", "NONE"} ->
                     MakeMinMaxTypedScalar(statistics, t.type, before)
              [] OTHER -> ScalarsResult("NotImplemented", "Cannot extract statistics for type ",
                                        before.min, before.max)

\* FromInt64Statistics
FromInt64Statistics(statistics, logical, before) ==
    LET t == FromInt64(logical)
    IN IF t.status # "OK" THEN ScalarsResult(t.status, "FromInt64", before.min, before.max)
       ELSE CASE logical.type = "INT" -> MakeMinMaxIntegralScalar(statistics, before)
              [] logical.type \in {"TIME", "TIMESTAMP", "NONE"} ->
                     MakeMinMaxTypedScalar(statistics, t.type, before)
              [] OTHER -> ScalarsResult("NotImplemented", "Cannot extract statistics for type ",
                                        before.min, before.max)

\* FromBigEndianString<DecimalType>
FromBigEndianString(data, arrow_type) ==
    LET d == FromBigEndian(data, arrow_type.byte_width)
    IN [ok |-> d.ok, scalar |-> Scalar(arrow_type, d.decimal)]

\* A faulty variant of ExtractDecimalMinMax that converts and assigns the max first.
ExtractDecimalMinMaxMaxFirst(statistics, arrow_type, before) ==
    LET a == FromBigEndianString(statistics.min, arrow_type)
        b == FromBigEndianString(statistics.max, arrow_type)
    IN IF ~b.ok THEN ScalarsResult("Invalid", "FromBigEndian", before.min, before.max)
       ELSE IF ~a.ok THEN ScalarsResult("Invalid", "FromBigEndian", before.min, b.scalar)
       ELSE ScalarsResult("OK", "", a.scalar, b.scalar)

\* The two assignments of ExtractDecimalMinMaxFromBytesType for one decimal type.
ExtractDecimalMinMax(statistics, arrow_type, before) ==
    LET a == FromBigEndianString(statistics.min, arrow_type)
        b == FromBigEndianString(statistics.max, arrow_type)
    IN IF ~a.ok THEN ScalarsResult("Invalid", "FromBigEndian", before.min, before.max)
       ELSE IF ~b.ok THEN ScalarsResult("Invalid", "FromBigEndian", a.scalar, before.max)
       ELSE ScalarsResult("OK", "", a.scalar, b.scalar)

\* A faulty variant of ExtractDecimalMinMaxFromBytesType that also falls back
\* to decimal256 when the bytes do not fit a decimal128.
ExtractDecimalMinMaxFallbackOnLength(statistics, logical, before) ==
    LET maybe_type == DecimalTypeMake("DECIMAL128", logical.precision, logical.scale)
        fallback == DecimalTypeMake("DECIMAL256", logical.precision, logical.scale)
        narrow == ExtractDecimalMinMax(statistics, maybe_type.type, before)
    IN IF maybe_type.ok /\ narrow.status = "OK" THEN narrow
       ELSE IF ~fallback.ok
       THEN ScalarsResult("Invalid", "Decimal256Type::Make", before.min, before.max)
       ELSE ExtractDecimalMinMax(statistics, fallback.type, before)

\* ExtractDecimalMinMaxFromBytesType
ExtractDecimalMinMaxFromBytesType(statistics, logical, before) ==
    LET maybe_type == DecimalTypeMake("DECIMAL128", logical.precision, logical.scale)
        fallback == DecimalTypeMake("DECIMAL256", logical.precision, logical.scale)
    IN IF maybe_type.ok THEN ExtractDecimalMinMax(statistics, maybe_type.type, before)
       ELSE IF ~fallback.ok
       THEN ScalarsResult("Invalid", "Decimal256Type::Make", before.min, before.max)
       ELSE ExtractDecimalMinMax(statistics, fallback.type, before)

\* ByteArrayStatisticsAsScalars
ByteArrayStatisticsAsScalars(statistics, before) ==
    LET logical == statistics.descr.logical
        type == IF statistics.descr.physical_type = "FIXED_LEN_BYTE_ARRAY"
                THEN ScalarType("FIXED_SIZE_BINARY", "NONE", statistics.descr.type_length, 0, 0)
                ELSE IF logical.type = "STRING" THEN PlainScalarType("STRING")
                ELSE PlainScalarType("BINARY")
    IN IF logical.type = "DECIMAL"
       THEN ExtractDecimalMinMaxFromBytesType(statistics, logical, before)
       ELSE MakeMinMaxTypedScalar(statistics, type, before)

\* The switch on the physical type (lines 289-313).
StatisticsAsScalarsSwitch(statistics, before) ==
    LET physical_type == statistics.descr.physical_type
        logical == statistics.descr.logical
    IN CASE physical_type = "BOOLEAN" -> MakeMinMaxScalar(statistics, "BOOL")
         [] physical_type = "FLOAT" -> MakeMinMaxScalar(statistics, "FLOAT")
         [] physical_type = "DOUBLE" -> MakeMinMaxScalar(statistics, "DOUBLE")
         [] physical_type = "INT32" -> FromInt32Statistics(statistics, logical, before)
         [] physical_type = "INT64" -> FromInt64Statistics(statistics, logical, before)
         [] physical_type \in {"BYTE_ARRAY", "FIXED_LEN_BYTE_ARRAY"} ->
                ByteArrayStatisticsAsScalars(statistics, before)
         [] OTHER -> ScalarsResult("NotImplemented",
                                   "Extract statistics unsupported for physical_type",
                                   before.min, before.max)

\* A faulty variant of StatisticsAsScalars that looks at the descriptor first.
StatisticsAsScalarsDescriptorFirst(statistics, before) ==
    IF ~statistics.descr.present
    THEN ScalarsResult("Invalid", "Statistics carries no descriptor, can't infer arrow type.",
                       before.min, before.max)
    ELSE IF ~statistics.HasMinMax
    THEN ScalarsResult("Invalid", "Statistics has no min max.", before.min, before.max)
    ELSE StatisticsAsScalarsSwitch(statistics, before)

\* StatisticsAsScalars
StatisticsAsScalars(statistics, before) ==
    IF ~statistics.HasMinMax
    THEN ScalarsResult("Invalid", "Statistics has no min max.", before.min, before.max)
    ELSE IF ~statistics.descr.present
    THEN ScalarsResult("Invalid", "Statistics carries no descriptor, can't infer arrow type.",
                       before.min, before.max)
    ELSE StatisticsAsScalarsSwitch(statistics, before)

-----------------------------------------------------------------------------
(* What the surroundings decide during a call.                             *)

Unlimited == 99

Envs ==
    {[alloc_budget |-> Unlimited, cast |-> c] : c \in {"keep", "unknown", "fail"}}
    \cup {[alloc_budget |-> b, cast |-> "keep"] : b \in {0, 1}}

\* The call: TransferColumnData(reader, metadata, value_field, descr, ctx, out).
TransferColumnData ==
    /\ pc = "ready"
    /\ \E env \in Envs :
          LET o == Dispatch(reader, metadata, value_field, descr, env)
          IN /\ status' = o.status
             /\ out' = AssignOut(o, out)
             /\ reader' = ReaderAfter(reader, o.log)
             /\ trace' = [path |-> o.path, log |-> o.log, allocs |-> o.allocs,
                          env |-> env, reader |-> reader, kind |-> o.datum.kind]
    /\ pc' = "done"
    /\ UNCHANGED <<metadata, value_field, descr, attached, stats, scalars, concurrent_vars>>

Next == TransferColumnData

-----------------------------------------------------------------------------
(* The inputs of a call.                                                   *)

\* In place of validity bits: there is no validity bitmap.
NoBits == <<2>>

\* All sequences of length n over S.
Seqs(S, n) == [1..n -> S]
SeqsUpTo(S, n) == UNION {Seqs(S, k) : k \in 0..n}

\* A typed reader of a primitive column: elems are the values (each of the
\* physical width), bits the validity bits, or NoBits for a column without
\* nullable values.  The null count is the number of cleared bits.
PrimitiveReader(p, elems, bits) ==
    [kind |-> "primitive", physical |-> p,
     values |-> Buffer("reader.values", Flatten(elems)),
     valid_bits |-> IF bits = NoBits THEN NullBuffer ELSE Buffer("reader.valid_bits", bits),
     values_written |-> Len(elems),
     null_count |-> IF bits = NoBits THEN 0 ELSE CountZeros(bits),
     nullable_values |-> bits # NoBits,
     read_dictionary |-> FALSE,
     chunk_type |-> T("NA"), chunks |-> <<>>]

\* Offsets of a binary array holding elems.
RECURSIVE Offsets(_, _)
Offsets(elems, from) ==
    IF elems = <<>> THEN <<from>>
    ELSE <<from>> \o Offsets(Tail(elems), from + Len(Head(elems)))

\* A chunk as a builder finishes it: values elems, validity bits or NoBits.
Chunk(type, elems, bits) ==
    [type |-> type, length |-> Len(elems),
     null_count |-> IF bits = NoBits THEN 0 ELSE CountZeros(bits),
     validity |-> IF bits = NoBits THEN NullBuffer ELSE Buffer("chunk.validity", bits),
     values |-> Buffer("chunk.values", Flatten(elems)),
     offsets |-> IF type.id = "FIXED_SIZE_BINARY" THEN <<>> ELSE Offsets(elems, 0),
     statistics |-> NoStatistics]

\* A reader of a BYTE_ARRAY or FIXED_LEN_BYTE_ARRAY column: kind is "binary",
\* or "dictionary" for the reader that keeps the dictionary encoding.
ChunkReader(kind, p, type, chunks, nullable_values) ==
    [kind |-> kind, physical |-> p,
     values |-> Buffer("reader.values", <<>>),
     valid_bits |-> IF nullable_values THEN Buffer("reader.valid_bits", <<>>) ELSE NullBuffer,
     values_written |-> 0,
     null_count |-> 0,
     nullable_values |-> nullable_values,
     read_dictionary |-> kind = "dictionary",
     chunk_type |-> type, chunks |-> chunks]

\* The chunk metadata: absent, without statistics, or with statistics.
NoMetadata ==
    [present |-> FALSE, has_statistics |-> FALSE, physical |-> "NONE",
     HasDistinctCount |-> FALSE, distinct_count |-> 0, HasMinMax |-> FALSE,
     min |-> <<>>, max |-> <<>>]

Metadata(p, has_statistics, has_distinct, has_min_max, min, max) ==
    [present |-> TRUE, has_statistics |-> has_statistics, physical |-> p,
     HasDistinctCount |-> has_distinct, distinct_count |-> 2, HasMinMax |-> has_min_max,
     min |-> min, max |-> max]

Descr(p, type_length) == [physical_type |-> p, type_length |-> type_length]

Field(type, nullable) == [type |-> type, nullable |-> nullable]

\* The static of TransferHalfFloat before its initialisation, and after.
UninitializedStatic == [initialized |-> FALSE, type |-> T("NA")]
InitializedStatic == [initialized |-> TRUE, type |-> FixedSizeBinary(2)]

\* No concurrent calls are under way.
NoConcurrentCalls == calls = <<>> /\ results = <<>> /\ binary_type = UninitializedStatic

\* No statistics have been handed to StatisticsAsScalars; null *min and *max.
Statistics(has_min_max, cd, min, max) ==
    [HasMinMax |-> has_min_max, descr |-> cd, min |-> min, max |-> max]

NoStats == Statistics(FALSE, NullDescr, <<>>, <<>>)
NoScalars ==
    [status |-> "none", message |-> "", min |-> NoScalar, max |-> NoScalar,
     before |-> [min |-> NoScalar, max |-> NoScalar]]

\* No array has been handed to AttachStatistics.
NoArrayData == ArrayDataCtor(T("NA"), 0, NullBuffer, NullBuffer, 0)

NoTrace == [path |-> "none", log |-> <<>>, allocs |-> 0,
            env |-> [alloc_budget |-> Unlimited, cast |-> "keep"],
            reader |-> PrimitiveReader("INT32", <<>>, NoBits), kind |-> "NONE"]

\* The state before a call with the given inputs.
Ready(r, md, field, cd) ==
    /\ pc = "ready"
    /\ reader = r
    /\ metadata = md
    /\ value_field = field
    /\ descr = cd
    /\ status = "none"
    /\ out = NoOut
    /\ trace = [NoTrace EXCEPT !.reader = r]
    /\ attached = NoArrayData
    /\ stats = NoStats
    /\ scalars = NoScalars
    /\ NoConcurrentCalls

-----------------------------------------------------------------------------
(* The dispatch-level specification: every target type on every physical   *)
(* type, with small readers.                                               *)

SimpleTargetIds ==
    {"NA", "INT32", "INT64", "FLOAT", "DOUBLE", "BOOL", "DATE64", "HALF_FLOAT",
     "DECIMAL128", "DECIMAL256", "LIST", "STRUCT"}
    \cup Int32Targets \cup Int64Targets \cup (BinaryTargets \ {"FIXED_SIZE_BINARY"})

TargetTypes ==
    {T(id) : id \in SimpleTargetIds}
    \cup {Timestamp(u) : u \in TimeUnits}
    \cup {FixedSizeBinary(2)}
    \cup {Dictionary(T("BINARY")), Dictionary(T("STRING"))}

\* Element i of the sample column of physical type p.
SampleElement(p, i) ==
    IF p = "BOOLEAN" THEN <<i % 2>> ELSE ToBytes(i - 2, PhysicalWidth(p))

SampleElements(p, n) == [i \in 1..n |-> SampleElement(p, i)]

SamplePrimitiveReaders(p) ==
    {PrimitiveReader(p, SampleElements(p, n), bits) :
        <<n, bits>> \in {<<n, b>> \in (0..MaxLen) \X SeqsUpTo({0, 1}, MaxLen) : Len(b) = n}}
    \cup {PrimitiveReader(p, SampleElements(p, n), NoBits) : n \in 0..MaxLen}

\* One-value chunks: without a validity bitmap, with one and no null, with
\* one and a null.
SampleChunks(type, w) ==
    {Chunk(type, <<Repeat(1, w)>>, bits) : bits \in {NoBits, <<1>>, <<0>>}}

ChunkReadersOf(kind, p, type, w) ==
    {ChunkReader(kind, p, type, chunks, TRUE) :
        chunks \in SeqsUpTo(SampleChunks(type, w), MaxChunks)}

SampleChunkReaders(p) ==
    IF p = "FIXED_LEN_BYTE_ARRAY"
    THEN UNION {ChunkReadersOf("binary", p, FixedSizeBinary(w), w) : w \in {2, 4}}
    ELSE UNION {ChunkReadersOf("binary", p, T(t), 2) : t \in {"BINARY", "LARGE_BINARY"}}
         \cup ChunkReadersOf("dictionary", p, Dictionary(T("BINARY")), 2)

SampleReaders(p) ==
    IF p \in PrimitivePhysicalTypes THEN SamplePrimitiveReaders(p) ELSE SampleChunkReaders(p)

\* The descriptor of the column a reader reads.
DescrOf(r) ==
    Descr(r.physical, IF r.physical = "FIXED_LEN_BYTE_ARRAY" THEN r.chunk_type.byte_width ELSE 0)

SampleMetadata(p) ==
    {NoMetadata,
     Metadata(p, TRUE, TRUE, TRUE, ToBytes(-1, PhysicalWidth(p)), ToBytes(1, PhysicalWidth(p)))}

Init ==
    \E p \in PhysicalTypes :
    \E r \in SampleReaders(p) :
    \E md \in SampleMetadata(p) :
    \E type \in TargetTypes :
    \E nullable \in BOOLEAN :
        Ready(r, md, Field(type, nullable), DescrOf(r))

Spec == Init /\ [][Next]_vars

-----------------------------------------------------------------------------
(* Properties of TransferColumnData, checked under Spec.                   *)

Returned == pc = "done"
ReturnedOK == pc = "done" /\ status = "OK"

\* The reader as the call received it.
reader0 == trace.reader

Did(op) == \E i \in 1..Len(trace.log) : trace.log[i] = op

SingleArrayPaths ==
    {"TransferZeroCopy", "TransferInt", "TransferBool", "TransferDate64", "TransferInt96",
     "DecimalIntegerTransfer"}

\* C1 as stated: every successful call returns a chunked array whose type is
\* value_field's type, whatever the target type and the reader.
C1_TypeAlwaysFieldType ==
    ReturnedOK => out.set /\ out.type = value_field.type

\* C1, amended: every successful call returns a chunked array whose type, and
\* the type of each of its chunks, is value_field's type, except that a
\* binary or string target on a reader that kept the dictionary encoding
\* returns dictionary(int32, value_field's type).
C1_ResultType ==
    ReturnedOK =>
        LET expected == IF value_field.type.id \in BinaryTargets /\ reader0.read_dictionary
                        THEN Dictionary(value_field.type)
                        ELSE value_field.type
        IN /\ out.set
           /\ out.type = expected
           /\ \A i \in 1..Len(out.chunks) : out.chunks[i].type = expected

C1_Witness ==
    /\ ReturnedOK
    /\ value_field.type.id \in BinaryTargets
    /\ reader0.read_dictionary
    /\ Len(out.chunks) > 0

C3_NullableCarriesBitmap ==
    (ReturnedOK /\ value_field.nullable /\ trace.path \in SingleArrayPaths) =>
        /\ out.chunks[1].null_count = reader0.null_count
        /\ Did("ReleaseIsValid")
        /\ out.chunks[1].validity = ReleaseIsValid(reader0)

\* C3, amended: for a nullable field the array of a single-array transfer has
\* the reader's null count.  The zero-copy path always carries the bitmap
\* released from the reader; the other paths build the array from that bitmap
\* and carry it exactly when the null count is not zero (an array without
\* nulls is given no validity bitmap); the integer-backed decimal path
\* releases the bitmap only if the reader has nullable values, and otherwise
\* yields an array without bitmap and with null count zero.
C3_Nullable ==
    (ReturnedOK /\ value_field.nullable /\ trace.path \in SingleArrayPaths) =>
        LET a == out.chunks[1]
        IN IF trace.path = "DecimalIntegerTransfer" /\ ~reader0.nullable_values
           THEN a.null_count = 0 /\ a.validity = NullBuffer /\ ~Did("ReleaseIsValid")
           ELSE /\ a.null_count = reader0.null_count
                /\ Did("ReleaseIsValid")
                /\ a.validity = IF trace.path = "TransferZeroCopy" \/ reader0.null_count # 0
                                THEN ReleaseIsValid(reader0)
                                ELSE NullBuffer

C3_Witness ==
    /\ ReturnedOK
    /\ value_field.nullable
    /\ trace.path = "TransferInt"
    /\ reader0.null_count > 0
    /\ out.chunks[1].validity = reader0.valid_bits

\* C4: the zero-copy targets take the reader's own buffers.
ZeroCopyCase ==
    \/ value_field.type.id \in {"INT32", "INT64", "FLOAT", "DOUBLE"}
    \/ /\ value_field.type.id = "TIMESTAMP"
       /\ value_field.type.unit \in {"MILLI", "MICRO", "NANO"}
       /\ descr.physical_type # "INT96"

\* C4: for the targets INT32, INT64, FLOAT, DOUBLE and TIMESTAMP(milli, micro,
\* nano) on a non-INT96 column the array's value buffer is the buffer released
\* by ReleaseValues and, for a nullable field, its validity buffer the one
\* released by ReleaseIsValid; nothing is allocated and the reader's values
\* are not read.
C4_ZeroCopy ==
    (Returned /\ ZeroCopyCase) =>
        /\ status = "OK"
        /\ trace.path = "TransferZeroCopy"
        /\ Len(out.chunks) = 1
        /\ out.chunks[1].values = ReleaseValues(reader0)
        /\ out.chunks[1].values.id = "reader.values"
        /\ trace.allocs = 0
        /\ ~Did("values")
        /\ Did("ReleaseValues")
        /\ out.chunks[1].length = reader0.values_written
        /\ value_field.nullable => /\ out.chunks[1].validity = ReleaseIsValid(reader0)
                                   /\ Did("ReleaseIsValid")
        /\ ~value_field.nullable => out.chunks[1].validity = NullBuffer

C4_Witness ==
    /\ ReturnedOK
    /\ ZeroCopyCase
    /\ value_field.type.id = "TIMESTAMP"
    /\ value_field.nullable
    /\ reader0.values_written > 0
    /\ reader0.null_count > 0
    /\ out.chunks[1].values.data = reader0.values.data

\* C9: a TIMESTAMP target on an INT96 column goes to TransferInt96 for every
\* unit; on any other column the units milli, micro and nano take the
\* zero-copy path and the unit second fails with NotImplemented, leaving *out
\* unwritten.
C9_Timestamp ==
    (Returned /\ value_field.type.id = "TIMESTAMP") =>
        IF descr.physical_type = "INT96"
        THEN /\ trace.path = "TransferInt96"
             /\ status \in {"OK", "OutOfMemory"}
             /\ trace.env.alloc_budget >= 1 => status = "OK"
        ELSE IF value_field.type.unit = "SECOND"
        THEN status = "NotImplemented" /\ ~out.set /\ trace.log = <<>>
        ELSE status = "OK" /\ trace.path = "TransferZeroCopy" /\ out.set

C9_Witness ==
    /\ Returned
    /\ value_field.type = Timestamp("SECOND")
    /\ descr.physical_type = "INT64"
    /\ status = "NotImplemented"

\* The physical types the strategy selected for a target type reads.
StrategyReads(type) ==
    CASE type.id \in {"INT32", "DATE64"} \cup Int32Targets -> {"INT32"}
      [] type.id \in {"INT64"} \cup Int64Targets -> {"INT64"}
      [] type.id = "FLOAT" -> {"FLOAT"}
      [] type.id = "DOUBLE" -> {"DOUBLE"}
      [] type.id = "BOOL" -> {"BOOLEAN"}
      [] type.id = "TIMESTAMP" -> {"INT96", "INT64"}
      [] type.id = "HALF_FLOAT" -> {"FIXED_LEN_BYTE_ARRAY"}
      [] type.id = "DICTIONARY" -> {"BYTE_ARRAY"}
      [] type.id \in BinaryTargets -> {"BYTE_ARRAY", "FIXED_LEN_BYTE_ARRAY"}
      [] type.id \in {"DECIMAL128", "DECIMAL256"} ->
             {"INT32", "INT64", "BYTE_ARRAY", "FIXED_LEN_BYTE_ARRAY"}
      [] type.id = "NA" -> PhysicalTypes
      [] OTHER -> {}

\* C10 as stated: a pairing of physical and target type that is not supported
\* fails with NotImplemented; no call succeeds on a column whose physical type
\* is not the one the selected strategy reads.
C10_MismatchFails ==
    (Returned /\ descr.physical_type \notin StrategyReads(value_field.type)) =>
        status = "NotImplemented"

\* C10, amended: TransferColumnData itself answers NotImplemented exactly for
\* a target type id without a dispatch branch and for TIMESTAMP(second) on a
\* non-INT96 column.  The physical type is examined only for the decimal
\* targets (any type other than INT32, INT64, BYTE_ARRAY, FIXED_LEN_BYTE_ARRAY
\* fails with Invalid), for HALF_FLOAT (anything but a two-byte
\* FIXED_LEN_BYTE_ARRAY fails with Invalid) and for TIMESTAMP; the zero-copy,
\* elementwise, boolean, date64 and null targets run their strategy on a
\* column of any physical type and do not fail for a mismatch.
C10_Dispatch ==
    Returned =>
        LET id == value_field.type.id
        IN /\ status = "NotImplemented" <=>
                 \/ StrategyReads(value_field.type) = {}
                 \/ /\ id = "TIMESTAMP"
                    /\ descr.physical_type # "INT96"
                    /\ value_field.type.unit = "SECOND"
           /\ status = "NotImplemented" => ~out.set /\ trace.log = <<>>
           /\ (id \in {"DECIMAL128", "DECIMAL256"}
                 /\ descr.physical_type \notin StrategyReads(value_field.type))
                 => status = "Invalid"
           /\ (id = "HALF_FLOAT"
                 /\ (descr.physical_type # "FIXED_LEN_BYTE_ARRAY" \/ descr.type_length # 2))
                 => status = "Invalid"
           /\ id \in {"INT32", "INT64", "FLOAT", "DOUBLE", "NA"} => status = "OK"
           /\ id \in {"BOOL", "DATE64"} \cup Int32Targets \cup Int64Targets
                 => status \in {"OK", "OutOfMemory"}

C10_Witness ==
    /\ ReturnedOK
    /\ value_field.type.id = "INT16"
    /\ descr.physical_type = "INT64"
    /\ out.set

-----------------------------------------------------------------------------
(* The elementwise integer transfer on concrete columns.                   *)

Int32Samples == {1, 3, -1, 200, 105536}

\* 1, -1, 2^32 and the largest int64.
Int64Samples ==
    {ToBytes(1, 8), ToBytes(-1, 8), <<0, 0, 0, 0, 1, 0, 0, 0>>,
     <<255, 255, 255, 255, 255, 255, 255, 127>>}

\* A bitmap of n bits with bit k cleared (none for k = 0).
NullAt(n, k) == [i \in 1..n |-> IF i = k THEN 0 ELSE 1]

\* The validity of a sample column of n values: no bitmap, a bitmap without a
\* null, a bitmap with the middle value null.
SampleValidities(n) ==
    {NoBits, NullAt(n, 0)} \cup (IF n > 0 THEN {NullAt(n, (n + 1) \div 2)} ELSE {})

IntReaders(p, samples) ==
    UNION {{PrimitiveReader(p, elems, bits) :
                elems \in Seqs(samples, n), bits \in SampleValidities(n)} :
           n \in 0..MaxValues}

InitInt ==
    \/ \E r \in IntReaders("INT32", {ToBytes(v, 4) : v \in Int32Samples}) :
       \E id \in Int32Targets :
       \E nullable \in BOOLEAN :
           Ready(r, NoMetadata, Field(T(id), nullable), DescrOf(r))
    \/ \E r \in IntReaders("INT64", Int64Samples) :
       \E id \in Int64Targets :
       \E nullable \in BOOLEAN :
           Ready(r, NoMetadata, Field(T(id), nullable), DescrOf(r))

SpecInt == InitInt /\ [][Next]_vars

\* The number a little-endian two's-complement byte string denotes.
RECURSIVE SignedValue(_)
SignedValue(bytes) ==
    IF Len(bytes) = 1
    THEN IF bytes[1] >= 128 THEN bytes[1] - 256 ELSE bytes[1]
    ELSE bytes[1] + 256 * SignedValue(Tail(bytes))

\* The number a little-endian unsigned byte string denotes.
RECURSIVE UnsignedValue(_)
UnsignedValue(bytes) ==
    IF bytes = <<>> THEN 0 ELSE bytes[1] + 256 * UnsignedValue(Tail(bytes))

\* v converted to an integer type of w bytes: v modulo 2^(8w), read as signed
\* or unsigned.
Modulus(w) == IF w = 1 THEN 256 ELSE 65536
Converted(v, w, signed) ==
    LET u == v % Modulus(w)
    IN IF signed /\ u >= Modulus(w) \div 2 THEN u - Modulus(w) ELSE u

-----------------------------------------------------------------------------
(* The boolean transfer on concrete columns.                               *)

BoolReaders ==
    UNION {{PrimitiveReader("BOOLEAN", elems, bits) :
                elems \in Seqs({<<0>>, <<1>>}, n), bits \in SampleValidities(n)} :
           n \in 0..MaxBoolLen}

InitBool ==
    \E r \in BoolReaders :
    \E nullable \in BOOLEAN :
        Ready(r, NoMetadata, Field(T("BOOL"), nullable), DescrOf(r))

SpecBool == InitBool /\ [][Next]_vars

\* Bit i (from 1) of a bitmap, least significant bit first.
GetBit(data, i) == (data[((i - 1) \div 8) + 1] \div 2^((i - 1) % 8)) % 2

\* C6: the boolean transfer yields a fresh bitmap of ceil(length / 8) bytes
\* whose bit i, least significant first, is set exactly when the reader's
\* value i is true and whose padding bits are zero; the bitmap is determined
\* by the reader's values alone, for a nullable field as for a non-nullable
\* one.
C6_TransferBool ==
    (Returned /\ trace.env.alloc_budget >= 1) =>
        LET a == out.chunks[1]
            n == reader0.values_written
            data == a.values.data
        IN /\ status = "OK"
           /\ trace.path = "TransferBool"
           /\ a.type = T("BOOL")
           /\ a.length = n
           /\ a.values.id = "alloc"
           /\ 8 * Len(data) >= n
           /\ 8 * (Len(data) - 1) < n
           /\ \A k \in 1..Len(data) : data[k] \in 0..255
           /\ \A i \in 1..n : GetBit(data, i) = 1 <=> reader0.values.data[i] = 1
           /\ \A i \in (n + 1)..(8 * Len(data)) : GetBit(data, i) = 0

C6_Witness ==
    /\ ReturnedOK
    /\ trace.path = "TransferBool"
    /\ reader0.values.data = <<1, 0, 1, 0, 0, 0, 0, 0, 1>>
    /\ out.chunks[1].values.data = <<5, 1>>
    /\ value_field.nullable
    /\ reader0.null_count = 1

-----------------------------------------------------------------------------
(* The integer-backed decimal transfer on concrete columns.                *)

DecimalTypes == {T("DECIMAL128"), T("DECIMAL256")}

DecimalInt32Samples == {12345, -12345, -1}

InitDecimalInt ==
    \/ \E r \in IntReaders("INT32", {ToBytes(v, 4) : v \in DecimalInt32Samples}) :
       \E type \in DecimalTypes :
       \E nullable \in BOOLEAN :
           Ready(r, NoMetadata, Field(type, nullable), DescrOf(r))
    \/ \E r \in IntReaders("INT64", Int64Samples) :
       \E type \in DecimalTypes :
       \E nullable \in BOOLEAN :
           Ready(r, NoMetadata, Field(type, nullable), DescrOf(r))

SpecDecimalInt == InitDecimalInt /\ [][Next]_vars

\* The byte width of the target decimal type, from its id alone.
TargetWidth == IF value_field.type.id = "DECIMAL128" THEN 16 ELSE 32

\* C7: the integer-backed decimal transfer writes, for each element, the
\* little-endian two's-complement encoding of the sign-extended integer in
\* exactly 16 (DECIMAL128) or 32 (DECIMAL256) bytes: the low bytes are the
\* source integer's own bytes, unscaled, and every higher byte is 0xFF for a
\* negative value and 0 otherwise, for an INT32 as for an INT64 source.
C7_DecimalInteger ==
    (Returned /\ trace.env.alloc_budget >= 1) =>
        LET a == out.chunks[1]
            n == reader0.values_written
            pw == IF descr.physical_type = "INT32" THEN 4 ELSE 8
        IN /\ status = "OK"
           /\ trace.path = "DecimalIntegerTransfer"
           /\ a.type = value_field.type
           /\ a.length = n
           /\ Len(a.values.data) = n * TargetWidth
           /\ \A i \in 1..n :
                 LET src == ElementAt(reader0.values.data, i, pw)
                     dst == ElementAt(a.values.data, i, TargetWidth)
                 IN /\ \A k \in 1..pw : dst[k] = src[k]
                    /\ \A k \in (pw + 1)..TargetWidth :
                          dst[k] = IF src[pw] >= 128 THEN 255 ELSE 0

C7_Witness ==
    /\ ReturnedOK
    /\ trace.path = "DecimalIntegerTransfer"
    /\ descr.physical_type = "INT32"
    /\ value_field.type.id = "DECIMAL256"
    /\ reader0.values_written = 2
    /\ ElementAt(reader0.values.data, 1, 4) = ToBytes(-12345, 4)
    /\ ElementAt(out.chunks[1].values.data, 1, 32) = <<199, 207>> \o Repeat(255, 30)
    /\ ElementAt(out.chunks[1].values.data, 2, 32) = <<57, 48>> \o Repeat(0, 30)

-----------------------------------------------------------------------------
(* The byte-backed decimal transfer on concrete columns.                   *)

\* Chunks of a FIXED_LEN_BYTE_ARRAY column of width w: without bitmap, with a
\* bitmap and no null, with a null and a value, all null, empty.
FixedChunks(w) ==
    LET type == FixedSizeBinary(w)
        pos == Repeat(0, w - 2) \o <<48, 57>>
        neg == Repeat(255, w - 2) \o <<207, 199>>
    IN {Chunk(type, <<pos>>, NoBits), Chunk(type, <<neg, pos>>, <<1, 1>>),
        Chunk(type, <<pos, neg>>, <<0, 1>>), Chunk(type, <<pos>>, <<0>>),
        Chunk(type, <<>>, NoBits)}

\* Chunks of a BYTE_ARRAY column: values of 1, 2, 0, 17 and 33 bytes.
ByteArrayChunks ==
    LET type == T("BINARY")
    IN {Chunk(type, <<<<48, 57>>>>, NoBits),
        Chunk(type, <<<<255>>, <<48, 57>>>>, <<1, 1>>),
        Chunk(type, <<<<>>, <<207, 199>>>>, <<0, 1>>),
        Chunk(type, <<<<>>>>, NoBits),
        Chunk(type, <<Repeat(1, 17)>>, NoBits),
        Chunk(type, <<<<207, 199>>, Repeat(1, 33)>>, NoBits),
        Chunk(type, <<Repeat(255, 17), <<1>>>>, <<1, 1>>)}

DecimalByteReaders ==
    UNION {{ChunkReader("binary", "FIXED_LEN_BYTE_ARRAY", FixedSizeBinary(w), chunks, TRUE) :
                chunks \in SeqsUpTo(FixedChunks(w), MaxChunks)} : w \in {2, 17, 33}}
    \cup {ChunkReader("binary", "BYTE_ARRAY", T("BINARY"), chunks, TRUE) :
              chunks \in SeqsUpTo(ByteArrayChunks, MaxChunks)}

InitDecimalBytes ==
    \E r \in DecimalByteReaders :
    \E type \in DecimalTypes :
    \E nullable \in BOOLEAN :
        Ready(r, NoMetadata, Field(type, nullable), DescrOf(r))

SpecDecimalBytes == InitDecimalBytes /\ [][Next]_vars

\* The source bytes of slot i of a reader chunk.
SourceValue(c, i) ==
    IF c.type.id = "FIXED_SIZE_BINARY" THEN FixedValue(c, i) ELSE BinaryValue(c, i)

\* Whether slot i of a reader chunk holds a value (is not null).
HasValue(c, i) == c.validity = NullBuffer \/ c.validity.data[i] = 1

TooLong == \E j \in 1..Len(reader0.chunks) :
           \E i \in 1..reader0.chunks[j].length :
               /\ HasValue(reader0.chunks[j], i)
               /\ Len(SourceValue(reader0.chunks[j], i)) > TargetWidth

\* C8: with allocation succeeding, the byte-backed decimal transfer fails with
\* Invalid, publishing nothing, whenever some non-null source value has more
\* bytes than the target decimal width (16 or 32), for FIXED_LEN_BYTE_ARRAY as
\* for BYTE_ARRAY; and when it succeeds, every non-null slot holds the source
\* value's big-endian bytes in reverse (little-endian) order followed by sign
\* bytes (0xFF for a negative value, 0 otherwise) up to the target width.
C8_DecimalBytes ==
    (Returned /\ trace.env.alloc_budget = Unlimited) =>
        /\ trace.path = "TransferDecimal"
        /\ status \in {"OK", "Invalid"}
        /\ TooLong => status = "Invalid" /\ ~out.set
        /\ status = "OK" =>
              /\ Len(out.chunks) = Len(reader0.chunks)
              /\ \A j \in 1..Len(out.chunks) :
                    LET c == reader0.chunks[j]
                        a == out.chunks[j]
                    IN /\ a.type = value_field.type
                       /\ a.length = c.length
                       /\ Len(a.values.data) = c.length * TargetWidth
                       /\ \A i \in 1..c.length :
                             HasValue(c, i) =>
                                LET src == SourceValue(c, i)
                                    dst == ElementAt(a.values.data, i, TargetWidth)
                                    L == Len(src)
                                IN /\ L \in 1..TargetWidth
                                   /\ \A k \in 1..L : dst[k] = src[L - k + 1]
                                   /\ \A k \in (L + 1)..TargetWidth :
                                         dst[k] = IF src[1] >= 128 THEN 255 ELSE 0

C8_Witness ==
    /\ Returned
    /\ status = "Invalid"
    /\ descr.physical_type = "FIXED_LEN_BYTE_ARRAY"
    /\ descr.type_length = 17
    /\ value_field.type.id = "DECIMAL128"
    /\ Len(reader0.chunks) = 2
    /\ reader0.chunks[1].null_count = reader0.chunks[1].length
    /\ reader0.chunks[2].null_count = 1
    /\ TooLong

-----------------------------------------------------------------------------
(* Statistics: every target type on every physical type, with every kind  *)
(* of chunk metadata.                                                      *)

\* Chunk metadata: absent, without statistics, and with statistics that
\* report any combination of distinct count and min/max.
AllMetadata(p) ==
    {NoMetadata,
     Metadata(p, FALSE, FALSE, FALSE, ToBytes(-1, PhysicalWidth(p)), ToBytes(1, PhysicalWidth(p)))}
    \cup {Metadata(p, TRUE, d, m, ToBytes(-1, PhysicalWidth(p)), ToBytes(1, PhysicalWidth(p))) :
             d \in BOOLEAN, m \in BOOLEAN}

\* One-value columns and columns of at most one one-value chunk.
StatsReaders(p) ==
    IF p \in PrimitivePhysicalTypes
    THEN {PrimitiveReader(p, SampleElements(p, 1), bits) : bits \in {NoBits, <<1>>, <<0>>}}
    ELSE IF p = "FIXED_LEN_BYTE_ARRAY"
    THEN UNION {{ChunkReader("binary", p, FixedSizeBinary(w), chunks, TRUE) :
                    chunks \in SeqsUpTo(SampleChunks(FixedSizeBinary(w), w), 1)} : w \in {2, 4}}
    ELSE {ChunkReader("binary", p, T("BINARY"), chunks, TRUE) :
             chunks \in SeqsUpTo(SampleChunks(T("BINARY"), 2), 1)}
         \cup {ChunkReader("dictionary", p, Dictionary(T("BINARY")), chunks, TRUE) :
                  chunks \in SeqsUpTo(SampleChunks(Dictionary(T("BINARY")), 2), 1)}

InitStats ==
    \E p \in PhysicalTypes :
    \E r \in StatsReaders(p) :
    \E md \in AllMetadata(p) :
    \E type \in TargetTypes :
    \E nullable \in BOOLEAN :
        Ready(r, md, Field(type, nullable), DescrOf(r))

SpecStats == InitStats /\ [][Next]_vars

\* The paths whose strategy is handed the chunk metadata.
AttachingPaths == {"TransferZeroCopy", "TransferInt", "TransferBool"}

\* Whether the chunk statistics exist and report min/max.
ReportsMinMax == metadata.present /\ metadata.has_statistics /\ metadata.HasMinMax

\* C11: in every statistics summary attached by a numeric or boolean transfer,
\* is_min_exact and is_max_exact are both true exactly when the chunk
\* statistics report HasMinMax, and then min and max are both set; without
\* min/max in the chunk statistics, min and max are unset and both flags are
\* false.
C11_ExactFlags ==
    (ReturnedOK /\ trace.path \in SingleArrayPaths) =>
        LET st == out.chunks[1].statistics
        IN st.set =>
              /\ (st.is_min_exact /\ st.is_max_exact) <=> ReportsMinMax
              /\ st.is_min_exact = st.is_max_exact
              /\ ReportsMinMax => Len(st.min) = 1 /\ Len(st.max) = 1
              /\ ~ReportsMinMax => st.min = <<>> /\ st.max = <<>>

C11_Witness ==
    /\ ReturnedOK
    /\ trace.path = "TransferInt"
    /\ out.chunks[1].statistics.set
    /\ metadata.has_statistics
    /\ ~metadata.HasMinMax
    /\ metadata.HasDistinctCount
    /\ ~out.chunks[1].statistics.is_min_exact
    /\ out.chunks[1].statistics.min = <<>>

\* The binary, string, dictionary and decimal paths.
ByteOrientedPaths ==
    {"TransferBinary", "TransferDictionary", "TransferDecimal", "DecimalIntegerTransfer"}

\* C12: no chunk of the result of a binary, string, dictionary or decimal
\* transfer carries a statistics summary, so none has is_min_exact or
\* is_max_exact set, whatever the chunk metadata holds.
C12_NeverExact ==
    (ReturnedOK /\ trace.path \in ByteOrientedPaths) =>
        \A i \in 1..Len(out.chunks) :
            /\ ~out.chunks[i].statistics.set
            /\ ~out.chunks[i].statistics.is_min_exact
            /\ ~out.chunks[i].statistics.is_max_exact

C12_Witness ==
    /\ ReturnedOK
    /\ trace.path = "TransferDecimal"
    /\ ReportsMinMax
    /\ Len(out.chunks) = 1
    /\ ~out.chunks[1].statistics.set

\* C14 as stated: after every successful call given chunk metadata with
\* statistics, every array of the result has a statistics summary attached.
C14_AlwaysAttached ==
    (ReturnedOK /\ metadata.present /\ metadata.has_statistics) =>
        \A i \in 1..Len(out.chunks) : out.chunks[i].statistics.set

\* C14, amended: after a successful call given chunk metadata with statistics,
\* the returned array has a statistics summary exactly on the zero-copy,
\* elementwise integer and boolean paths; there the summary holds the array's
\* null count, the distinct count if the chunk statistics have one and min
\* and max if they have them.  On every other path (date64, int96, decimal,
\* binary, dictionary, half-float, null type) no array of the result carries
\* a summary.
C14_Attached ==
    (ReturnedOK /\ metadata.present /\ metadata.has_statistics) =>
        \A i \in 1..Len(out.chunks) :
            LET a == out.chunks[i]
                st == a.statistics
            IN /\ st.set <=> trace.path \in AttachingPaths
               /\ st.set =>
                     /\ st.null_count = <<a.null_count>>
                     /\ st.distinct_count = IF metadata.HasDistinctCount
                                            THEN <<metadata.distinct_count>> ELSE <<>>
                     /\ Len(st.min) = (IF metadata.HasMinMax THEN 1 ELSE 0)
                     /\ Len(st.max) = (IF metadata.HasMinMax THEN 1 ELSE 0)

C14_Witness ==
    /\ ReturnedOK
    /\ metadata.present /\ metadata.has_statistics /\ metadata.HasMinMax
    /\ trace.path = "TransferDate64"
    /\ descr.physical_type = "INT32"
    /\ ~out.chunks[1].statistics.set

-----------------------------------------------------------------------------
(* Binary and dictionary transfers over chunks of every shape a reader may *)
(* hand over.                                                              *)

\* A chunk whose stored null count is given rather than counted.
ChunkStoring(type, elems, bits, stored) == [Chunk(type, elems, bits) EXCEPT !.null_count = stored]

\* One-value chunks as delivered: the builder-finished ones, and chunks
\* without a validity bitmap whose stored null count is unknown or non-zero.
DeliveredChunks(type, w) ==
    SampleChunks(type, w)
    \cup {ChunkStoring(type, <<Repeat(1, w)>>, NoBits, n) : n \in {kUnknownNullCount, 1}}

BinaryReaders(p) ==
    IF p = "FIXED_LEN_BYTE_ARRAY"
    THEN {ChunkReader("binary", p, FixedSizeBinary(2), chunks, TRUE) :
             chunks \in SeqsUpTo(DeliveredChunks(FixedSizeBinary(2), 2), MaxChunks)}
    ELSE {ChunkReader("binary", p, T("BINARY"), chunks, TRUE) :
             chunks \in SeqsUpTo(DeliveredChunks(T("BINARY"), 2), MaxChunks)}
         \cup {ChunkReader("dictionary", p, Dictionary(T("BINARY")), chunks, TRUE) :
                  chunks \in SeqsUpTo(DeliveredChunks(Dictionary(T("BINARY")), 2), MaxChunks)}

BinaryTargetTypes ==
    {T(id) : id \in (BinaryTargets \ {"FIXED_SIZE_BINARY"}) \cup {"HALF_FLOAT", "LIST"}}
    \cup {FixedSizeBinary(2), Dictionary(T("BINARY")), Dictionary(T("STRING"))}

InitBinary ==
    \E p \in {"BYTE_ARRAY", "FIXED_LEN_BYTE_ARRAY"} :
    \E r \in BinaryReaders(p) :
    \E type \in BinaryTargetTypes :
    \E nullable \in BOOLEAN :
        Ready(r, NoMetadata, Field(type, nullable), DescrOf(r))

SpecBinary == InitBinary /\ [][Next]_vars

\* A successful binary/string or dictionary transfer into a non-nullable field.
NonNullableBinaryCase ==
    /\ ReturnedOK
    /\ trace.path \in {"TransferBinary", "TransferDictionary"}
    /\ ~value_field.nullable

\* C13 as stated: for a non-nullable field every chunk of the result of a
\* dictionary or binary/string transfer has null_count = 0 and no validity
\* buffer, whatever the delivered chunks had.
C13_AlwaysZero ==
    NonNullableBinaryCase =>
        \A i \in 1..Len(out.chunks) :
            /\ out.chunks[i].null_count = 0
            /\ out.chunks[i].validity = NullBuffer

\* C13, amended: for a non-nullable field the result of a dictionary or
\* binary/string transfer has one chunk per delivered chunk and no chunk has a
\* validity buffer.  A chunk delivered with a validity buffer has null count
\* 0.  A chunk delivered without one is not rebuilt: it keeps the null count
\* it had after the cast, that is the delivered one, or unknown if the chunk
\* was cast and the cast left the count to be computed.
C13_Reconstructed ==
    NonNullableBinaryCase =>
        /\ Len(out.chunks) = Len(reader0.chunks)
        /\ \A i \in 1..Len(out.chunks) :
              LET a == out.chunks[i]
                  d == reader0.chunks[i]
              IN /\ a.validity = NullBuffer
                 /\ d.validity # NullBuffer => a.null_count = 0
                 /\ (d.validity = NullBuffer /\ a.type = d.type) => a.null_count = d.null_count
                 /\ (d.validity = NullBuffer /\ a.type # d.type) =>
                        a.null_count = IF trace.env.cast = "unknown" THEN kUnknownNullCount
                                       ELSE d.null_count

C13_Witness ==
    /\ NonNullableBinaryCase
    /\ trace.path = "TransferDictionary"
    /\ Len(out.chunks) = 2
    /\ reader0.chunks[1].validity # NullBuffer
    /\ reader0.chunks[1].null_count = 1
    /\ out.chunks[1].null_count = 0
    /\ reader0.chunks[2].validity = NullBuffer
    /\ reader0.chunks[2].null_count = 1
    /\ out.chunks[2].null_count = 1

-----------------------------------------------------------------------------
(* The caller's *out, the reader operations of one call and the kind of    *)
(* the result.                                                             *)

\* C16: whenever the call returns a status other than OK, *out has not been
\* written: it is what it was before the call.  (*out is unset before every
\* call of the model.)
C16_OutUntouchedOnError ==
    (Returned /\ status \notin {"OK", "Undefined"}) => out = NoOut

C16_Witness ==
    /\ Returned
    /\ status = "CastFailed"
    /\ trace.path = "TransferDictionary"
    /\ Did("GetResult")
    /\ reader0.chunks # <<>>
    /\ reader.chunks = <<>>
    /\ out = NoOut

\* The reader operations that hand ownership to the caller.
OwnershipOps == {"ReleaseValues", "ReleaseIsValid", "GetBuilderChunks", "GetResult"}

\* How often op was invoked during the call.
Invocations(op) == Cardinality({i \in 1..Len(trace.log) : trace.log[i] = op})

\* C17: during one call each of ReleaseValues, ReleaseIsValid,
\* GetBuilderChunks and GetResult is invoked at most once, and values() is
\* never read after ReleaseValues.
C17_OwnershipOnce ==
    Returned =>
        /\ \A op \in OwnershipOps : Invocations(op) <= 1
        /\ \A i \in 1..Len(trace.log) : \A j \in 1..Len(trace.log) :
              (trace.log[i] = "ReleaseValues" /\ trace.log[j] = "values") => j < i

C17_Witness ==
    /\ ReturnedOK
    /\ trace.path = "TransferZeroCopy"
    /\ trace.log = <<"ReleaseIsValid", "ReleaseValues">>
    /\ reader.values = FreshBuffer
    /\ reader0.values_written > 0

\* C18: whenever the call returns OK the strategy left an array or a chunked
\* array, never anything else, and *out has been assigned from it: an array
\* as a chunked array of that one chunk, a chunked array as it is.
C18_ResultKind ==
    ReturnedOK =>
        /\ trace.kind \in {"ARRAY", "CHUNKED_ARRAY"}
        /\ out.set
        /\ trace.kind = "ARRAY" <=> trace.path \in SingleArrayPaths \cup {"NullArray"}
        /\ trace.kind = "ARRAY" => Len(out.chunks) = 1
        /\ trace.kind = "CHUNKED_ARRAY" => Len(out.chunks) = Len(reader0.chunks)

C18_Witness ==
    /\ ReturnedOK
    /\ trace.kind = "CHUNKED_ARRAY"
    /\ trace.path = "TransferBinary"
    /\ out.set
    /\ Len(out.chunks) = 2

-----------------------------------------------------------------------------
(* AttachStatistics called directly, on arrays whose null count may be     *)
(* unknown.                                                                *)

\* The instantiations AttachStatistics<ArrowType, ParquetType> of the transfers.
AttachInstantiations ==
    {<<id, "INT32">> : id \in Int32Targets \cup {"INT32"}}
    \cup {<<id, "INT64">> : id \in Int64Targets \cup {"INT64"}}
    \cup {<<"FLOAT", "FLOAT">>, <<"DOUBLE", "DOUBLE">>, <<"BOOL", "BOOLEAN">>}

\* Arrays of one value whose stored null count is unknown, zero or one.
AttachArrays(id, p) ==
    {ArrayDataCtor(T(id), 1, validity, Buffer("values", SampleElement(p, 1)), n) :
        validity \in {NullBuffer, Buffer("validity", <<0>>)},
        n \in {kUnknownNullCount, 0, 1}}

InitAttach ==
    \E inst \in AttachInstantiations :
    \E a \in AttachArrays(inst[1], inst[2]) :
    \E md \in AllMetadata(inst[2]) :
        /\ pc = "attach"
        /\ attached = a
        /\ metadata = md
        /\ value_field = Field(T(inst[1]), TRUE)
        /\ descr = Descr(inst[2], 0)
        /\ reader = NoTrace.reader
        /\ status = "none"
        /\ out = NoOut
        /\ trace = NoTrace
        /\ stats = NoStats
        /\ scalars = NoScalars
        /\ NoConcurrentCalls

\* The call AttachStatistics<ArrowType, ParquetType>(data, metadata).
AttachStatisticsCall ==
    /\ pc = "attach"
    /\ attached' = AttachStatistics(attached, metadata, value_field.type.id, descr.physical_type)
    /\ pc' = "attached"
    /\ UNCHANGED <<reader, metadata, value_field, descr, status, out, trace, stats, scalars,
                   concurrent_vars>>

NextAttach == AttachStatisticsCall

SpecAttach == InitAttach /\ [][NextAttach]_vars

\* C20: AttachStatistics leaves the statistics unset when the metadata is
\* absent, and when the array's null count is unknown and the metadata has no
\* statistics.  In every other case it attaches a summary whose null_count is
\* set, to the array's null count, exactly when that count is known, and whose
\* distinct_count is set exactly when the chunk statistics report
\* HasDistinctCount, with or without min/max.
C20_AttachFrame ==
    pc = "attached" =>
        LET st == attached.statistics
            known == attached.null_count # kUnknownNullCount
        IN /\ ~st.set <=> \/ ~metadata.present
                          \/ ~known /\ ~metadata.has_statistics
           /\ ~st.set => st = NoStatistics
           /\ st.set =>
                 /\ st.null_count = IF known THEN <<attached.null_count>> ELSE <<>>
                 /\ st.distinct_count =
                        IF metadata.has_statistics /\ metadata.HasDistinctCount
                        THEN <<metadata.distinct_count>> ELSE <<>>

C20_Witness ==
    /\ pc = "attached"
    /\ attached.null_count = kUnknownNullCount
    /\ metadata.has_statistics
    /\ metadata.HasDistinctCount
    /\ ~metadata.HasMinMax
    /\ attached.statistics.set
    /\ attached.statistics.null_count = <<>>
    /\ attached.statistics.distinct_count = <<metadata.distinct_count>>

\* The summary stays unset for an unknown null count without chunk statistics.
C20_UnsetReached ==
    /\ pc = "attached"
    /\ metadata.present
    /\ ~metadata.has_statistics
    /\ attached.null_count = kUnknownNullCount
    /\ ~attached.statistics.set

-----------------------------------------------------------------------------
(* StatisticsAsScalars called on statistics of every physical type.        *)

IntLogicalTypes ==
    {LogicalType("INT", w, sg, "NONE", 0, 0) : w \in {8, 16, 32, 64}, sg \in BOOLEAN}

\* The logical types sampled for a column of physical type p.
SampleLogicalTypes(p) ==
    CASE p = "INT32" ->
            IntLogicalTypes
            \cup {NoLogicalType,
                  LogicalType("DATE", 0, FALSE, "NONE", 0, 0),
                  LogicalType("TIME", 0, FALSE, "MILLIS", 0, 0),
                  LogicalType("TIME", 0, FALSE, "MICROS", 0, 0),
                  LogicalType("DECIMAL", 0, FALSE, "NONE", 9, 2),
                  LogicalType("STRING", 0, FALSE, "NONE", 0, 0)}
      [] p = "INT64" ->
            IntLogicalTypes
            \cup {NoLogicalType,
                  LogicalType("DATE", 0, FALSE, "NONE", 0, 0),
                  LogicalType("TIME", 0, FALSE, "MILLIS", 0, 0),
                  LogicalType("TIME", 0, FALSE, "MICROS", 0, 0),
                  LogicalType("TIMESTAMP", 0, FALSE, "NANOS", 0, 0),
                  LogicalType("DECIMAL", 0, FALSE, "NONE", 18, 2)}
      [] p \in {"BYTE_ARRAY", "FIXED_LEN_BYTE_ARRAY"} ->
            {NoLogicalType, LogicalType("STRING", 0, FALSE, "NONE", 0, 0)}
            \cup {LogicalType("DECIMAL", 0, FALSE, "NONE", precision, 0) :
                     precision \in {4, kMaxPrecision128, kMaxPrecision128 + 1,
                                    kMaxPrecision256 + 1}}
      [] OTHER -> {NoLogicalType}

\* Encoded byte-array statistics: empty, short, longer than a decimal128 and
\* longer than a decimal256.
SampleEncoded == {<<>>, <<255, 254>>, Repeat(1, 17), Repeat(1, 33)}

\* The <<min, max>> pairs sampled for a descriptor.
SampleMinMax(cd) ==
    CASE cd.physical_type = "BOOLEAN" -> {<<<<0>>, <<1>>>>, <<<<1>>, <<1>>>>}
      [] cd.physical_type = "BYTE_ARRAY" -> SampleEncoded \X SampleEncoded
      [] cd.physical_type = "FIXED_LEN_BYTE_ARRAY" ->
            {<<Repeat(255, cd.type_length), Repeat(1, cd.type_length)>>}
      [] OTHER -> {<<ToBytes(-1, PhysicalWidth(cd.physical_type)),
                     ToBytes(v, PhysicalWidth(cd.physical_type))>> : v \in {1, 300}}

SampleDescrs ==
    UNION {{ColumnDescr(p, 0, l) : l \in SampleLogicalTypes(p)} :
              p \in PhysicalTypes \ {"FIXED_LEN_BYTE_ARRAY"}}
    \cup UNION {{ColumnDescr("FIXED_LEN_BYTE_ARRAY", w, l) :
                    l \in SampleLogicalTypes("FIXED_LEN_BYTE_ARRAY")} : w \in {2, 17}}

SampleStatistics ==
    {Statistics(h, NullDescr, <<>>, <<>>) : h \in BOOLEAN}
    \cup UNION {{Statistics(h, cd, mm[1], mm[2]) : h \in BOOLEAN, mm \in SampleMinMax(cd)} :
                   cd \in SampleDescrs}

\* What the caller's *min and *max hold before the call: nothing, or scalars
\* of an earlier call.
SamplePriorScalars ==
    {NoScalar, Scalar(PlainScalarType("INT32"), ToBytes(7, 4))}

InitScalars ==
    \E st \in SampleStatistics :
    \E prior \in SamplePriorScalars :
        /\ pc = "scalars"
        /\ stats = st
        /\ scalars = [NoScalars EXCEPT !.min = prior, !.max = prior,
                                       !.before = [min |-> prior, max |-> prior]]
        /\ attached = NoArrayData
        /\ metadata = NoMetadata
        /\ value_field = Field(T("NA"), TRUE)
        /\ descr = Descr("BOOLEAN", 0)
        /\ reader = NoTrace.reader
        /\ status = "none"
        /\ out = NoOut
        /\ trace = NoTrace
        /\ NoConcurrentCalls

\* The call StatisticsAsScalars(statistics, &min, &max).
StatisticsAsScalarsCall ==
    /\ pc = "scalars"
    /\ LET o == StatisticsAsScalars(stats, scalars)
       IN /\ scalars' = [status |-> o.status, message |-> o.message,
                         min |-> o.min, max |-> o.max,
                         before |-> [min |-> scalars.min, max |-> scalars.max]]
          /\ status' = o.status
    /\ pc' = "scalars_done"
    /\ UNCHANGED <<reader, metadata, value_field, descr, out, trace, attached, stats,
                   concurrent_vars>>

NextScalars == StatisticsAsScalarsCall

SpecScalars == InitScalars /\ [][NextScalars]_vars

\* *min and *max are what the caller passed.
ScalarsUntouched == scalars.min = scalars.before.min /\ scalars.max = scalars.before.max

\* C15: StatisticsAsScalars fails with Invalid when the statistics have no
\* min/max, and fails with Invalid when they carry no column descriptor; the
\* min/max check comes first, so statistics lacking both report the missing
\* min/max; in both cases *min and *max are left as they were.
C15_InvalidStatistics ==
    pc = "scalars_done" =>
        /\ ~stats.HasMinMax =>
              /\ status = "Invalid"
              /\ scalars.message = "Statistics has no min max."
              /\ ScalarsUntouched
        /\ (stats.HasMinMax /\ ~stats.descr.present) =>
              /\ status = "Invalid"
              /\ scalars.message = "Statistics carries no descriptor, can't infer arrow type."
              /\ ScalarsUntouched

C15_Witness ==
    /\ pc = "scalars_done"
    /\ ~stats.HasMinMax
    /\ ~stats.descr.present
    /\ status = "Invalid"
    /\ scalars.message = "Statistics has no min max."
    /\ scalars.before.min.set
    /\ scalars.min = scalars.before.min

\* LogicalType::is_applicable for the sampled INT and TIME logical types: a
\* descriptor cannot carry an INT of 64 bits or a TIME in micro- or nanoseconds
\* on an INT32 column, nor an INT below 64 bits or a TIME in milliseconds on an
\* INT64 column.
Applicable(cd) ==
    LET l == cd.logical
    IN CASE l.type = "INT" ->
               IF cd.physical_type = "INT32" THEN l.bit_width \in {8, 16, 32}
               ELSE l.bit_width = 64
         [] l.type = "TIME" ->
               IF cd.physical_type = "INT32" THEN l.unit = "MILLIS"
               ELSE l.unit \in {"MICROS", "NANOS"}
         [] OTHER -> TRUE

\* The arrow type id of an INT logical type.
IntTypeId(l) ==
    CASE l.bit_width = 8 -> IF l.is_signed THEN "INT8" ELSE "UINT8"
      [] l.bit_width = 16 -> IF l.is_signed THEN "INT16" ELSE "UINT16"
      [] l.bit_width = 32 -> IF l.is_signed THEN "INT32" ELSE "UINT32"
      [] OTHER -> IF l.is_signed THEN "INT64" ELSE "UINT64"

\* The arrow unit of a parquet time unit.
ArrowUnit(unit) ==
    CASE unit = "MILLIS" -> "MILLI" [] unit = "MICROS" -> "MICRO" [] OTHER -> "NANO"

\* The type of the scalars of a directly typed INT32 or INT64 column.
DirectType(cd) ==
    LET l == cd.logical
    IN CASE l.type = "DATE" -> PlainScalarType("DATE32")
         [] l.type = "TIME" ->
               ScalarType(IF cd.physical_type = "INT32" THEN "TIME32" ELSE "TIME64",
                          ArrowUnit(l.unit), 0, 0, 0)
         [] l.type = "TIMESTAMP" -> ScalarType("TIMESTAMP", ArrowUnit(l.unit), 0, 0, 0)
         [] OTHER -> PlainScalarType(cd.physical_type)

\* Scalar sc is the raw statistic converted to the C type of the INT logical type l.
IsConverted(sc, raw, l) ==
    /\ sc.set
    /\ sc.type = PlainScalarType(IntTypeId(l))
    /\ Len(sc.value) = l.bit_width \div 8
    /\ IF Len(sc.value) = Len(raw) THEN sc.value = raw
       ELSE (IF l.is_signed THEN SignedValue(sc.value) ELSE UnsignedValue(sc.value))
               = Converted(SignedValue(raw), l.bit_width \div 8, l.is_signed)

\* StatisticsAsScalars got past its two checks on an INT32 or INT64 column
\* whose descriptor is one a schema can hold.
IntegerStatisticsCase ==
    /\ pc = "scalars_done"
    /\ stats.HasMinMax
    /\ stats.descr.present
    /\ stats.descr.physical_type \in {"INT32", "INT64"}
    /\ Applicable(stats.descr)

ByteStatisticsCase ==
    /\ pc = "scalars_done"
    /\ stats.HasMinMax
    /\ stats.descr.present
    /\ stats.descr.physical_type \in {"BYTE_ARRAY", "FIXED_LEN_BYTE_ARRAY"}

\* Scalar sc is the decimal of the given type whose little-endian bytes are
\* the big-endian two's-complement bytes raw, sign-extended to the type's width.
IsDecimalOf(sc, raw, type) ==
    /\ sc.set
    /\ sc.type = type
    /\ Len(sc.value) = type.byte_width
    /\ \A k \in 1..type.byte_width :
          sc.value[k] = IF k <= Len(raw) THEN raw[Len(raw) + 1 - k]
                        ELSE IF raw[1] >= 128 THEN 255 ELSE 0

\* C22: for byte-array and fixed-length-byte-array statistics with a DECIMAL
\* logical type the decimal type is chosen by the precision alone: decimal128
\* if the precision is valid for it, otherwise decimal256, and the call fails
\* if the precision fits neither.  With the type chosen, the call yields
\* scalars of that type if the encoded min and max both have between one byte
\* and the type's width, and fails otherwise: bytes longer than 16 under a
\* decimal128-valid precision are an error, never a decimal256 scalar.  For
\* the other logical types it yields fixed_size_binary(type_length) scalars
\* for FIXED_LEN_BYTE_ARRAY, utf8 for STRING and binary otherwise.
C22_ByteStatistics ==
    ByteStatisticsCase =>
        LET cd == stats.descr
            l == cd.logical
            wide == l.precision > kMaxPrecision128
            type == ScalarType(IF wide THEN "DECIMAL256" ELSE "DECIMAL128", "NONE",
                               IF wide THEN 32 ELSE 16, l.precision, l.scale)
            fits(b) == Len(b) >= 1 /\ Len(b) <= type.byte_width
            plain == IF cd.physical_type = "FIXED_LEN_BYTE_ARRAY"
                     THEN ScalarType("FIXED_SIZE_BINARY", "NONE", cd.type_length, 0, 0)
                     ELSE IF l.type = "STRING" THEN PlainScalarType("STRING")
                     ELSE PlainScalarType("BINARY")
        IN IF l.type # "DECIMAL"
           THEN /\ status = "OK"
                /\ scalars.min = Scalar(plain, stats.min)
                /\ scalars.max = Scalar(plain, stats.max)
           ELSE IF l.precision > kMaxPrecision256
           THEN status = "Invalid" /\ ScalarsUntouched
           ELSE IF fits(stats.min) /\ fits(stats.max)
           THEN /\ status = "OK"
                /\ IsDecimalOf(scalars.min, stats.min, type)
                /\ IsDecimalOf(scalars.max, stats.max, type)
           ELSE /\ status = "Invalid"
                /\ scalars.max = scalars.before.max

\* Precision 4 with a 17-byte max: an error, not a decimal256.
C22_Witness ==
    /\ ByteStatisticsCase
    /\ stats.descr.physical_type = "BYTE_ARRAY"
    /\ stats.descr.logical.type = "DECIMAL"
    /\ stats.descr.logical.precision = 4
    /\ stats.min = <<255, 254>>
    /\ Len(stats.max) = 17
    /\ status = "Invalid"
    /\ scalars.max = scalars.before.max

\* Precision above 38 with short bytes: decimal256 scalars.
C22_FallbackReached ==
    /\ ByteStatisticsCase
    /\ stats.descr.logical.type = "DECIMAL"
    /\ stats.descr.logical.precision = kMaxPrecision128 + 1
    /\ status = "OK"
    /\ scalars.min.type.id = "DECIMAL256"
    /\ scalars.min.value = <<254, 255>> \o Repeat(255, 30)

\* StatisticsAsScalars returned an error.
ScalarsFailed == pc = "scalars_done" /\ status # "OK"

\* C27 as stated: when StatisticsAsScalars returns an error, neither *min nor
\* *max has been modified.
C27_AtomicOutputs == ScalarsFailed => ScalarsUntouched

\* The decimal min was decoded and assigned, then the max was rejected.
MinDecodedMaxRejected ==
    /\ ByteStatisticsCase
    /\ stats.descr.logical.type = "DECIMAL"
    /\ stats.descr.logical.precision <= kMaxPrecision256
    /\ LET width == IF stats.descr.logical.precision > kMaxPrecision128 THEN 32 ELSE 16
       IN /\ Len(stats.min) >= 1 /\ Len(stats.min) <= width
          /\ ~(Len(stats.max) >= 1 /\ Len(stats.max) <= width)

\* C27, amended: when StatisticsAsScalars returns an error, *max has not been
\* modified, and *min has not been modified either unless the error is the
\* rejection of the encoded max of a byte-backed decimal whose min was decoded:
\* then *min holds the decoded min and *max is as the caller passed it.  On
\* success both are assigned.
C27_OutputsOnError ==
    /\ ScalarsFailed =>
          /\ scalars.max = scalars.before.max
          /\ IF MinDecodedMaxRejected
             THEN /\ scalars.min.set
                  /\ scalars.min.type.id \in {"DECIMAL128", "DECIMAL256"}
                  /\ IsDecimalOf(scalars.min, stats.min, scalars.min.type)
             ELSE scalars.min = scalars.before.min
    /\ (pc = "scalars_done" /\ status = "OK") =>
          /\ scalars.min.set /\ scalars.max.set
          /\ scalars.min.type = scalars.max.type

C27_Witness ==
    /\ ScalarsFailed
    /\ MinDecodedMaxRejected
    /\ stats.descr.physical_type = "BYTE_ARRAY"
    /\ stats.min = <<255, 254>>
    /\ Len(stats.max) = 17
    /\ scalars.before.min = NoScalar
    /\ scalars.min.set
    /\ scalars.min.value = <<254, 255>> \o Repeat(255, 14)
    /\ scalars.max = NoScalar

\* The ids of the scalar types StatisticsAsScalars yields for a physical type.
ScalarTypeIds(p) ==
    CASE p = "BOOLEAN" -> {"BOOL"}
      [] p = "FLOAT" -> {"FLOAT"}
      [] p = "DOUBLE" -> {"DOUBLE"}
      [] p = "INT32" -> {"INT8", "UINT8", "INT16", "UINT16", "INT32", "UINT32", "DATE32",
                         "TIME32"}
      [] p = "INT64" -> {"INT64", "UINT64", "TIME64", "TIMESTAMP"}
      [] p = "BYTE_ARRAY" -> {"BINARY", "STRING", "DECIMAL128", "DECIMAL256"}
      [] p = "FIXED_LEN_BYTE_ARRAY" -> {"FIXED_SIZE_BINARY", "DECIMAL128", "DECIMAL256"}
      [] OTHER -> {}

\* C28: whenever StatisticsAsScalars returns OK, *min and *max have both been
\* assigned scalars made from the statistics (of one type, a type of the
\* statistics' physical type), whatever the caller passed, for every physical
\* type and every INT bit width a descriptor can carry.  (The scalars the
\* caller passes differ from every scalar made from the sampled statistics.)
C28_AssignedOnSuccess ==
    (pc = "scalars_done" /\ status = "OK" /\ Applicable(stats.descr)) =>
        /\ scalars.min.set
        /\ scalars.max.set
        /\ scalars.min # scalars.before.min
        /\ scalars.max # scalars.before.max
        /\ scalars.min.type = scalars.max.type
        /\ scalars.min.type.id \in ScalarTypeIds(stats.descr.physical_type)

C28_Witness ==
    /\ pc = "scalars_done"
    /\ status = "OK"
    /\ stats.descr.physical_type = "INT64"
    /\ stats.descr.logical.type = "INT"
    /\ stats.descr.logical.bit_width = 64
    /\ ~stats.descr.logical.is_signed
    /\ scalars.before.min.set
    /\ scalars.min = Scalar(PlainScalarType("UINT64"), stats.min)
    /\ scalars.max = Scalar(PlainScalarType("UINT64"), stats.max)

-----------------------------------------------------------------------------
(* The int96 timestamp transfer on concrete columns: elements on either    *)
(* side of the epoch and elements whose third word is zero, with and       *)
(* without nanoseconds, in valid and in null slots.                        *)

\* An int96 value: the nanoseconds within the day in the first two words,
\* the Julian day in the third.
Int96(nanos, julian) == ToBytes(nanos, 8) \o ToBytes(julian, 4)

Int96Samples ==
    {Int96(1500000000, kJulianToUnixEpochDays + 1),
     Int96(999, kJulianToUnixEpochDays - 1),
     Int96(7, 0),
     Int96(0, 0)}

Int96Readers ==
    UNION {{PrimitiveReader("INT96", elems, bits) :
                elems \in Seqs(Int96Samples, n), bits \in SampleValidities(n)} :
           n \in 0..MaxLen}

InitInt96 ==
    \E r \in Int96Readers :
    \E unit \in TimeUnits :
    \E nullable \in BOOLEAN :
        Ready(r, NoMetadata, Field(Timestamp(unit), nullable), DescrOf(r))

SpecInt96 == InitInt96 /\ [][Next]_vars

\* The timestamp of an int96 value in a unit, from the numbers it denotes:
\* the days since the epoch times the length of a day, plus the nanoseconds
\* within the day in that unit.
Int96Timestamp(v, unit) ==
    LET days == UnsignedValue(SubSeq(v, 9, 12)) - kJulianToUnixEpochDays
        nanos == UnsignedValue(SubSeq(v, 1, 8))
        thousand == ToBytes(1000, 8)
        millis == ToBytes(days * kMillisecondsPerDay, 8)
        micros == MulWrap(millis, thousand, 8)
    IN CASE unit = "SECOND" -> ToBytes(days * kSecondsPerDay + nanos \div 1000000000, 8)
         [] unit = "MILLI" -> ToBytes(days * kMillisecondsPerDay + nanos \div 1000000, 8)
         [] unit = "MICRO" -> AddWrap(micros, ToBytes(nanos \div 1000, 8), 8)
         [] OTHER -> AddWrap(MulWrap(micros, thousand, 8), ToBytes(nanos, 8), 8)

\* C23: in the int96 timestamp transfer, element i of the output is 0 when
\* the third 32-bit word of element i of the input is zero, in every unit and
\* whether slot i is valid or null; every other element is the timestamp of
\* the input element in the requested unit, again whether the slot is valid
\* or null: the validity bitmap has no part in the values.
C23_Int96ZeroHighWord ==
    (ReturnedOK /\ trace.path = "TransferInt96") =>
        LET a == out.chunks[1]
            n == reader0.values_written
            unit == value_field.type.unit
        IN /\ a.length = n
           /\ Len(a.values.data) = n * 8
           /\ \A i \in 1..n :
                 LET src == ElementAt(reader0.values.data, i, 12)
                     dst == ElementAt(a.values.data, i, 8)
                 IN IF SubSeq(src, 9, 12) = <<0, 0, 0, 0>>
                    THEN dst = Repeat(0, 8)
                    ELSE dst = Int96Timestamp(src, unit)

\* A valid slot holding 7 nanoseconds and a zero third word yields 0, next
\* to a null slot holding a day after the epoch, which is converted.
C23_Witness ==
    /\ ReturnedOK
    /\ trace.path = "TransferInt96"
    /\ value_field = Field(Timestamp("MICRO"), TRUE)
    /\ reader0.values_written = 2
    /\ reader0.valid_bits.data = <<0, 1>>
    /\ ElementAt(reader0.values.data, 1, 12) = Int96(1500000000, kJulianToUnixEpochDays + 1)
    /\ ElementAt(reader0.values.data, 2, 12) = Int96(7, 0)
    /\ ElementAt(out.chunks[1].values.data, 2, 8) = Repeat(0, 8)
    /\ ElementAt(out.chunks[1].values.data, 1, 8) # Repeat(0, 8)
    /\ out.chunks[1].null_count = 1

-----------------------------------------------------------------------------
(* The date64 transfer on concrete columns, the extreme day counts among   *)
(* them.                                                                   *)

\* Day counts as the int32 values of the column: 0, 1, -1, 25 (the first
\* whose milliseconds exceed 2^31), -2^31 and 2^31 - 1.
DaySamples ==
    {ToBytes(0, 4), ToBytes(1, 4), ToBytes(-1, 4), ToBytes(25, 4),
     <<0, 0, 0, 128>>, <<255, 255, 255, 127>>}

Date64Readers ==
    UNION {{PrimitiveReader("INT32", elems, bits) :
                elems \in Seqs(DaySamples, n), bits \in SampleValidities(n)} :
           n \in 0..MaxLen}

InitDate64 ==
    \E r \in Date64Readers :
    \E nullable \in BOOLEAN :
        Ready(r, NoMetadata, Field(T("DATE64"), nullable), DescrOf(r))

SpecDate64 == InitDate64 /\ [][Next]_vars

\* C24: the date64 transfer writes, for every element, valid or null, the
\* int32 day count times 86,400,000 as a 64-bit integer, and the 64-bit
\* result is the product itself, not a wrapped one: it is the product taken
\* in 128 bits, and dividing it by 86,400,000 (by 1000, then by 86,400)
\* gives back the day count.
C24_Date64Product ==
    (ReturnedOK /\ trace.path = "TransferDate64") =>
        LET a == out.chunks[1]
            n == reader0.values_written
        IN /\ a.length = n
           /\ Len(a.values.data) = n * 8
           /\ \A i \in 1..n :
                 LET src == ElementAt(reader0.values.data, i, 4)
                     dst == ElementAt(a.values.data, i, 8)
                 IN /\ StaticCast(dst, 16)
                         = MulWrap(StaticCast(src, 16), ToBytes(kMillisecondsPerDay, 16), 16)
                    /\ SDiv(SDiv(dst, 1000, 8), kSecondsPerDay, 8) = StaticCast(src, 8)

\* The two extreme day counts: -2^31 days are -185,542,587,187,200,000 ms
\* (0xFD6CD20000000000) and 2^31 - 1 days are 185,542,587,100,800,000 ms.
C24_Witness ==
    /\ ReturnedOK
    /\ trace.path = "TransferDate64"
    /\ reader0.values_written = 2
    /\ ElementAt(reader0.values.data, 1, 4) = <<0, 0, 0, 128>>
    /\ ElementAt(reader0.values.data, 2, 4) = <<255, 255, 255, 127>>
    /\ ElementAt(out.chunks[1].values.data, 1, 8) = <<0, 0, 0, 0, 0, 210, 108, 253>>
    /\ IsNegative(ElementAt(out.chunks[1].values.data, 1, 8))
    /\ ~IsNegative(ElementAt(out.chunks[1].values.data, 2, 8))

\* C25: in a byte-backed decimal transfer, every null slot of every output
\* chunk's value buffer is zero in each byte of the target width (16 for
\* decimal128, 32 for decimal256), for FIXED_LEN_BYTE_ARRAY and BYTE_ARRAY
\* columns alike: no byte of a null slot is left as allocated.
C25_NullSlotsZeroed ==
    (ReturnedOK /\ trace.path = "TransferDecimal") =>
        \A k \in 1..Len(out.chunks) :
            LET a == out.chunks[k]
                w == DecimalByteWidth(value_field.type)
            IN \A i \in 1..a.length :
                   (a.null_count > 0 /\ IsNull(a, i))
                       => ElementAt(a.values.data, i, w) = Repeat(0, w)

\* The strategies that take the reader's chunk sequence.
ChunkTakingPaths ==
    {"TransferDictionary", "TransferBinary", "TransferHalfFloat", "TransferDecimal"}

ErrorReturned == Returned /\ status \notin {"OK", "Undefined"}

\* C26 as stated: whenever the call returns an error the reader has not been
\* consumed: none of ReleaseValues, ReleaseIsValid, GetBuilderChunks and
\* GetResult has been performed and the reader is what it was before the
\* call, on every dispatch path.
C26_ReaderUntouchedOnError ==
    ErrorReturned => (reader = reader0 /\ \A op \in OwnershipOps : ~Did(op))

\* C26, amended: an error from the dispatch itself or from a primitive
\* strategy (whose only fallible step, the allocation of the output buffer,
\* precedes every release) leaves the reader unconsumed.  An error from the
\* dictionary, binary, half-float or byte-backed decimal strategy is a failed
\* cast or conversion of a chunk, and is returned after GetResult or
\* GetBuilderChunks has taken the reader's chunks: the reader has lost its
\* chunk sequence, and nothing else.
C26_ReaderOnError ==
    ErrorReturned =>
        IF trace.path \in ChunkTakingPaths
        THEN /\ Invocations("GetResult") + Invocations("GetBuilderChunks") = 1
             /\ ~Did("ReleaseValues") /\ ~Did("ReleaseIsValid")
             /\ reader = [reader0 EXCEPT !.chunks = <<>>]
        ELSE /\ \A op \in OwnershipOps : ~Did(op)
             /\ reader = reader0

\* A byte-backed decimal transfer fails on a chunk after the reader's chunks
\* were taken.
C26_Witness ==
    /\ ErrorReturned
    /\ trace.path = "TransferDecimal"
    /\ Did("GetBuilderChunks")
    /\ reader0.chunks # <<>>
    /\ reader.chunks = <<>>
    /\ out = NoOut

\* An elementwise transfer fails to allocate with the reader untouched.
C26_PrimitiveFailureReached ==
    /\ ErrorReturned
    /\ trace.path = "TransferInt"
    /\ reader0.nullable_values
    /\ reader = reader0

-----------------------------------------------------------------------------
(* AttachStatistics on statistics whose min and max lie inside and outside *)
(* the range of the target's C type.                                       *)

StatSamples == {-129, -1, 0, 1, 200, 300, 70000}

\* The chunk metadata of a column of physical type p with min <= max.
OrderedMetadata(p) ==
    IF p = "BOOLEAN"
    THEN {Metadata(p, TRUE, FALSE, TRUE, <<mn>>, <<mx>>) : mn \in {0}, mx \in {0, 1}}
         \cup {Metadata(p, TRUE, FALSE, TRUE, <<1>>, <<1>>)}
    ELSE {Metadata(p, TRUE, FALSE, TRUE, ToBytes(pair[1], PhysicalWidth(p)),
                   ToBytes(pair[2], PhysicalWidth(p))) :
             pair \in {q \in StatSamples \X StatSamples : q[1] <= q[2]}}

InitAttachValues ==
    \E inst \in AttachInstantiations :
    \E a \in AttachArrays(inst[1], inst[2]) :
    \E md \in OrderedMetadata(inst[2]) :
        /\ pc = "attach"
        /\ attached = a
        /\ metadata = md
        /\ value_field = Field(T(inst[1]), TRUE)
        /\ descr = Descr(inst[2], 0)
        /\ reader = NoTrace.reader
        /\ status = "none"
        /\ out = NoOut
        /\ trace = NoTrace
        /\ stats = NoStats
        /\ scalars = NoScalars
        /\ NoConcurrentCalls

SpecAttachValues == InitAttachValues /\ [][NextAttach]_vars

\* a <= b for unsigned little-endian values of the same length.
RECURSIVE ULessEq(_, _)
ULessEq(a, b) ==
    IF a = <<>> THEN TRUE
    ELSE LET n == Len(a)
         IN IF a[n] # b[n] THEN a[n] < b[n]
            ELSE ULessEq(SubSeq(a, 1, n - 1), SubSeq(b, 1, n - 1))

\* a <= b for two's-complement values of the same length.
SLessEq(a, b) ==
    IF IsNegative(a) # IsNegative(b) THEN IsNegative(a) ELSE ULessEq(a, b)

IntegerTarget(id) == id # "BOOL" /\ ~CTypeFloating(id)

\* The attached value s is the physical statistic v converted to the C type
\* of the target id and widened: its low sizeof(c_type) bytes are v modulo
\* 2^width, the bytes above are the sign for a signed target and zero for an
\* unsigned one.
AttachedAsConverted(s, v, id) ==
    LET w == CTypeWidth(id)
        low == SubSeq(s.bytes, 1, w)
        fill == IF CTypeSigned(id) /\ low[w] >= 128 THEN 255 ELSE 0
    IN /\ s.tag = (IF id = "BOOL" THEN "bool"
                   ELSE IF CTypeFloating(id) THEN "double"
                   ELSE IF CTypeSigned(id) THEN "int64" ELSE "uint64")
       /\ IntegerTarget(id) =>
             /\ Len(s.bytes) = 8
             /\ \A k \in 1..w : low[k] = (IF k <= Len(v) THEN v[k]
                                          ELSE IF IsNegative(v) THEN 255 ELSE 0)
             /\ \A k \in (w + 1)..8 : s.bytes[k] = fill
             /\ w <= 2 => (IF CTypeSigned(id) THEN SignedValue(low) ELSE UnsignedValue(low))
                              = Converted(SignedValue(v), w, CTypeSigned(id))

\* The attached min is not greater than the attached max.
AttachedOrdered ==
    LET mn == attached.statistics.min[1]
        mx == attached.statistics.max[1]
    IN IF mn.tag = "int64" THEN SLessEq(mn.bytes, mx.bytes) ELSE ULessEq(mn.bytes, mx.bytes)

\* The conversion to the target's C type left the number v unchanged.
Representable(s, v, id) ==
    s.bytes = StaticCast(v, 8) /\ (CTypeSigned(id) \/ ~IsNegative(v))

AttachedMinMax ==
    /\ pc = "attached"
    /\ attached.statistics.set
    /\ attached.statistics.min # <<>>
    /\ attached.statistics.max # <<>>

\* C29 as stated: the attached min and max are the physical statistics
\* converted to the target's C type and widened to 64 bits (int64, uint64,
\* double or bool by the kind of the target), modulo 2^width for a narrowing
\* or sign-changing target, and for an integer target the attached min is
\* never greater than the attached max when the physical min is not greater
\* than the physical max.
C29_ConvertedAndOrdered ==
    AttachedMinMax =>
        LET id == value_field.type.id
        IN /\ AttachedAsConverted(attached.statistics.min[1], metadata.min, id)
           /\ AttachedAsConverted(attached.statistics.max[1], metadata.max, id)
           /\ (IntegerTarget(id) /\ SLessEq(metadata.min, metadata.max)) => AttachedOrdered

\* C29, amended: the attached min and max are the physical statistics
\* converted to the target's C type and widened to 64 bits, modulo 2^width
\* for a narrowing or sign-changing target; for an integer target the
\* attached min is not greater than the attached max when the physical min is
\* not greater than the physical max and the conversion leaves both numbers
\* unchanged (both lie in the range of the target's C type).
C29_ConvertedOrderedInRange ==
    AttachedMinMax =>
        LET id == value_field.type.id
            mn == attached.statistics.min[1]
            mx == attached.statistics.max[1]
        IN /\ AttachedAsConverted(mn, metadata.min, id)
           /\ AttachedAsConverted(mx, metadata.max, id)
           /\ (/\ IntegerTarget(id)
               /\ SLessEq(metadata.min, metadata.max)
               /\ Representable(mn, metadata.min, id)
               /\ Representable(mx, metadata.max, id)) => AttachedOrdered

\* int32 min -1 and max 300 on a UINT8 target are attached as 255 and 44:
\* converted modulo 2^8, and in reverse order.
C29_Witness ==
    /\ AttachedMinMax
    /\ value_field.type.id = "UINT8"
    /\ metadata.min = ToBytes(-1, 4)
    /\ metadata.max = ToBytes(300, 4)
    /\ attached.statistics.min[1] = [tag |-> "uint64", bytes |-> ToBytes(255, 8)]
    /\ attached.statistics.max[1] = [tag |-> "uint64", bytes |-> ToBytes(44, 8)]
    /\ ~AttachedOrdered

\* int32 min -1 on a UINT32 target is attached as 4294967295, above the
\* attached max 1.
C29_SignChangeReached ==
    /\ AttachedMinMax
    /\ value_field.type.id = "UINT32"
    /\ metadata.min = ToBytes(-1, 4)
    /\ metadata.max = ToBytes(1, 4)
    /\ attached.statistics.min[1].bytes = <<255, 255, 255, 255, 0, 0, 0, 0>>
    /\ attached.statistics.max[1].bytes = ToBytes(1, 8)

\* int32 min 0 and max 200 on a UINT8 target are in range and stay ordered.
C29_InRangeReached ==
    /\ AttachedMinMax
    /\ value_field.type.id = "UINT8"
    /\ metadata.min = ToBytes(0, 4)
    /\ metadata.max = ToBytes(200, 4)
    /\ AttachedOrdered

-----------------------------------------------------------------------------
(* The chunk sequences of the binary, dictionary and byte-backed decimal   *)
(* transfers, on columns whose chunks differ in length and content.        *)

\* Chunks of two-byte values: of one value, of two, of two with a null, an
\* empty one, and one without a bitmap whose stored null count is unknown.
VariedChunks(type) ==
    LET a == <<48, 57>>
        b == <<207, 199>>
    IN {Chunk(type, <<a>>, NoBits), Chunk(type, <<b, a>>, <<1, 1>>),
        Chunk(type, <<a, b>>, <<0, 1>>), Chunk(type, <<>>, NoBits),
        ChunkStoring(type, <<b>>, NoBits, kUnknownNullCount)}

VariedReaders ==
    {ChunkReader("binary", "FIXED_LEN_BYTE_ARRAY", FixedSizeBinary(2), chunks, TRUE) :
        chunks \in SeqsUpTo(VariedChunks(FixedSizeBinary(2)), MaxChunks)}
    \cup {ChunkReader("binary", "BYTE_ARRAY", T("BINARY"), chunks, TRUE) :
             chunks \in SeqsUpTo(VariedChunks(T("BINARY")), MaxChunks)}
    \cup {ChunkReader("dictionary", "BYTE_ARRAY", Dictionary(T("BINARY")), chunks, TRUE) :
             chunks \in SeqsUpTo(VariedChunks(Dictionary(T("BINARY"))), MaxChunks)}

VariedTargetTypes ==
    {T("BINARY"), T("STRING"), T("LARGE_BINARY"), FixedSizeBinary(2),
     Dictionary(T("BINARY")), Dictionary(T("STRING"))} \cup DecimalTypes

InitChunks ==
    \E r \in VariedReaders :
    \E type \in VariedTargetTypes :
    \E nullable \in BOOLEAN :
        Ready(r, NoMetadata, Field(type, nullable), DescrOf(r))

SpecChunks == InitChunks /\ [][Next]_vars

\* A successful binary, dictionary or byte-backed decimal transfer.
ChunkedTransferDone ==
    ReturnedOK /\ trace.path \in {"TransferBinary", "TransferDictionary", "TransferDecimal"}

\* Chunk c of the result holds the slots of the delivered chunk d: the same
\* values and offsets for a binary or dictionary transfer, the little-endian
\* decimal of each big-endian value for a decimal transfer.
SameSlots(c, d) ==
    /\ c.length = d.length
    /\ IF trace.path = "TransferDecimal"
       THEN \A i \in 1..d.length :
                HasValue(d, i) =>
                    SubSeq(ElementAt(c.values.data, i, DecimalByteWidth(value_field.type)), 1, 2)
                        = Reverse(SourceValue(d, i))
       ELSE c.values = d.values /\ c.offsets = d.offsets

\* C30: a binary, dictionary or byte-backed decimal transfer returns as many
\* chunks as the reader delivered, chunk k of the result holding the slots of
\* delivered chunk k, with its length: no chunk is merged, split, moved or
\* dropped by a cast, a decimal conversion or the removal of the validity
\* buffers; and a delivered chunk that already has the type of the result and
\* whose validity buffer is not to be removed is returned as it was
\* delivered.
C30_ChunksPreserved ==
    ChunkedTransferDone =>
        /\ Len(out.chunks) = Len(reader0.chunks)
        /\ \A k \in 1..Len(reader0.chunks) :
              LET c == out.chunks[k]
                  d == reader0.chunks[k]
              IN /\ SameSlots(c, d)
                 /\ (d.type = out.type /\ (value_field.nullable \/ d.validity = NullBuffer))
                       => c = d

\* Two chunks of different lengths, the first empty, come back in their
\* order with the validity buffer of the second removed.
C30_Witness ==
    /\ ChunkedTransferDone
    /\ trace.path = "TransferBinary"
    /\ ~value_field.nullable
    /\ value_field.type = T("BINARY")
    /\ Len(reader0.chunks) = 2
    /\ reader0.chunks[1].length = 0
    /\ reader0.chunks[2].length = 2
    /\ reader0.chunks[2].validity # NullBuffer
    /\ out.chunks[1] = reader0.chunks[1]
    /\ out.chunks[2].length = 2
    /\ out.chunks[2].validity = NullBuffer

\* A decimal transfer of two chunks of lengths 2 and 1.
C30_DecimalReached ==
    /\ ChunkedTransferDone
    /\ trace.path = "TransferDecimal"
    /\ Len(reader0.chunks) = 2
    /\ reader0.chunks[1].length = 2
    /\ reader0.chunks[2].length = 1
    /\ out.chunks[1].length = 2
    /\ out.chunks[2].length = 1

\* A dictionary transfer of two chunks that passes both through.
C30_DictionaryReached ==
    /\ ChunkedTransferDone
    /\ trace.path = "TransferDictionary"
    /\ value_field.nullable
    /\ Len(reader0.chunks) = 2
    /\ reader0.chunks[1] # reader0.chunks[2]
    /\ out.chunks = reader0.chunks

-----------------------------------------------------------------------------
(* Two concurrent calls of TransferColumnData, each on its own reader,     *)
(* metadata, field and *out.  A call takes three steps: it enters (its     *)
(* locals are constructed), it runs its strategy (the switch), it assigns  *)
(* *out (the tail).  The memory pool and the cast engine are thread-safe;  *)
(* what they answer to a call is that call's env.                          *)

\* A faulty variant of ResultSlot in which `result` is one static object.
ResultSlotShared(i) == 1

\* `Datum result` and `chunked_result` are locals of the call (lines 838-839):
\* call i has its own.
ResultSlot(i) == i

\* The arguments of the sampled calls.
CallArguments(r, md, type, nullable) ==
    [reader |-> r, metadata |-> md, value_field |-> Field(type, nullable), descr |-> DescrOf(r)]

SampleCalls ==
    {CallArguments(PrimitiveReader("INT32", SampleElements("INT32", 1), <<1>>),
                   md, T(id), TRUE) :
        md \in SampleMetadata("INT32"), id \in {"INT32", "INT8"}}
    \cup {CallArguments(PrimitiveReader("BOOLEAN", SampleElements("BOOLEAN", 2), NoBits),
                        NoMetadata, T("BOOL"), FALSE),
          CallArguments(PrimitiveReader("INT64", SampleElements("INT64", 1), <<0>>),
                        NoMetadata, T("LIST"), TRUE)}
    \cup {CallArguments(ChunkReader("binary", "FIXED_LEN_BYTE_ARRAY", FixedSizeBinary(2),
                                    <<Chunk(FixedSizeBinary(2), <<<<1, 2>>>>, <<0>>)>>, TRUE),
                        NoMetadata, T("HALF_FLOAT"), nullable) : nullable \in BOOLEAN}
    \cup {CallArguments(ChunkReader("dictionary", "BYTE_ARRAY", Dictionary(T("BINARY")),
                                    <<Chunk(Dictionary(T("BINARY")), <<<<3>>>>, NoBits)>>, TRUE),
                        NoMetadata, Dictionary(T("STRING")), TRUE)}

\* A call that has not started.
Call(args, env) ==
    [pc |-> "ready", reader |-> args.reader, reader0 |-> args.reader,
     metadata |-> args.metadata, value_field |-> args.value_field, descr |-> args.descr,
     env |-> env, status |-> "none", out |-> NoOut, path |-> "none", steps |-> <<>>]

InitConcurrent ==
    /\ \E a \in SampleCalls : \E b \in SampleCalls :
       \E ea \in Envs : \E eb \in Envs :
          calls = <<Call(a, ea), Call(b, eb)>>
    /\ results = <<NoneDatum, NoneDatum>>
    /\ binary_type = UninitializedStatic
    /\ pc = "concurrent"
    /\ reader = NoTrace.reader
    /\ metadata = NoMetadata
    /\ value_field = Field(T("NA"), TRUE)
    /\ descr = Descr("BOOLEAN", 0)
    /\ status = "none"
    /\ out = NoOut
    /\ trace = NoTrace
    /\ attached = NoArrayData
    /\ stats = NoStats
    /\ scalars = NoScalars

\* The number of the next step of the two calls together.
Tick == Len(calls[1].steps) + Len(calls[2].steps) + 1

\* Call i is entered: its locals are constructed.
Enter(i) ==
    /\ calls[i].pc = "ready"
    /\ calls' = [calls EXCEPT ![i].pc = "entered", ![i].steps = Append(@, Tick)]
    /\ results' = [results EXCEPT ![ResultSlot(i)] = NoneDatum]
    /\ UNCHANGED <<binary_type, pc, reader, metadata, value_field, descr, status, out, trace,
                   attached, stats, scalars>>

\* Call i runs the switch: the strategy works on the call's reader and writes
\* the call's `result`; TransferHalfFloat initialises its static on first use.
Strategy(i) ==
    /\ calls[i].pc = "entered"
    /\ LET c == calls[i]
           o == Dispatch(c.reader, c.metadata, c.value_field, c.descr, c.env)
       IN /\ calls' = [calls EXCEPT ![i] =
                          [c EXCEPT !.pc = IF o.status = "OK" THEN "switched" ELSE "done",
                                    !.status = o.status,
                                    !.reader = ReaderAfter(c.reader, o.log),
                                    !.path = o.path,
                                    !.steps = Append(@, Tick)]]
          /\ results' = IF o.status = "OK" THEN [results EXCEPT ![ResultSlot(i)] = o.datum]
                        ELSE results
          /\ binary_type' = IF o.path = "TransferHalfFloat" /\ ~binary_type.initialized
                            THEN InitializedStatic ELSE binary_type
    /\ UNCHANGED <<pc, reader, metadata, value_field, descr, status, out, trace,
                   attached, stats, scalars>>

\* Call i assigns *out from its `result` and returns OK.
Assign(i) ==
    /\ calls[i].pc = "switched"
    /\ calls' = [calls EXCEPT ![i].pc = "done",
                              ![i].out = Publish(results[ResultSlot(i)], @),
                              ![i].steps = Append(@, Tick)]
    /\ UNCHANGED <<results, binary_type, pc, reader, metadata, value_field, descr, status, out,
                   trace, attached, stats, scalars>>

NextConcurrent == \E i \in 1..2 : Enter(i) \/ Strategy(i) \/ Assign(i)

SpecConcurrent == InitConcurrent /\ [][NextConcurrent]_vars

\* What call i produces when it runs alone.
Alone(i) ==
    Dispatch(calls[i].reader0, calls[i].metadata, calls[i].value_field, calls[i].descr,
             calls[i].env)

====
